---- MODULE Spec2Model ----
(***************************************************************************)
(* Model of the AI tour generation pipeline of codetour_ai:                *)
(*   - BatchTourGenerator (batch-generator.ts): welcome page, concurrent   *)
(*     batch groups, per-batch timeout race, merge of the group results;   *)
(*   - TourGenerator.validateAndRefineSteps / findSimilarFile              *)
(*     (tour-generator.ts): validation and repair of the generated steps.  *)
(* JavaScript values that may be absent or of the wrong type are tagged    *)
(* records: the tag t is the typeof of the value.                          *)
(***************************************************************************)
EXTENDS Integers, Sequences, FiniteSets, TLC

VARIABLES
    files,          \* structure.files: sequence of FileAnalysis
    hasReadme,      \* README.md of the workspace folder can be opened
    configured,     \* LLMService.isConfigured() of the generator's service
    pc,             \* position of the run
    wreq,           \* the welcome request: "idle", "inflight", "done"
    wresp,          \* the answer the service gives to the welcome request
    welcomeSteps,   \* result of generateWelcomePage
    allSteps,       \* generateTourInBatches: accumulated list
    batches,        \* generateTourInBatches: result of createFileBatches
    groupStart,     \* generateTourInBatches: loop variable (0-based)
    req,            \* per batch: the service request
    prom,           \* per batch: the promise of batchPromises
    res,            \* per batch: the value that promise fulfilled with
    tourSteps,      \* generateTour: list handed to validateAndRefineSteps
    maxSteps,       \* options.maxSteps (0: unset)
    validatedSteps, \* result of validateAndRefineSteps
    keptIdx,        \* 0-based input index of each validated step
    cancelRequested, \* token.isCancellationRequested of the progress
    cmdConfigured,  \* isConfigured() of the llmService of the commands
    parser,         \* TreeSitterAnalyzer.parser: "null" or "ready"
    analysisStarted, \* generateTour has been called by the command
    tourSaved,      \* saveTour has written the tour file
    tourInStore,    \* the tour is in store.tours
    tourStarted,    \* startCodeTour has been called
    initialized,    \* TreeSitterAnalyzer.initialized
    languages,      \* TreeSitterAnalyzer.languages: the loaded grammars
    source,         \* the file given to analyzeFile
    analysis,       \* what analyzeFile returned
    workspace,      \* the files of the workspace that findFiles can return
    maxFiles,       \* autoGenerate.maxFilesToAnalyze
    searchLimit,    \* analyzeProject: maxResults given to findFiles
    filesToAnalyze, \* analyzeProject: the files of the analysis loop
    responseText, \* the response.content given to parseStepsFromResponse
    parsedSteps, \* what parseStepsFromResponse returned
    readmeLines, \* the lines of the README given to cleanReadmeContent
    cleaned, \* what cleanReadmeContent returned
    settings, \* the persisted codetour.llm.* settings
    panel, \* the settings panel: "closed", "open", "disposed"
    testResult, \* the testResult last posted to the panel
    lastMessage, \* the panel message last handled
    errorsShown, \* showErrorMessage calls of the run
    successShown \* "generated successfully" notifications of the run

vars == <<files, hasReadme, configured, pc, wreq, wresp, welcomeSteps,
          allSteps, batches, groupStart, req, prom, res, tourSteps, maxSteps,
          validatedSteps, keptIdx, cancelRequested, cmdConfigured, parser,
          analysisStarted, tourSaved, tourInStore, tourStarted, initialized,
          languages, source, analysis, workspace, maxFiles, searchLimit,
          filesToAnalyze,
          responseText, parsedSteps, readmeLines, cleaned, settings, panel, testResult, lastMessage,
          errorsShown, successShown>>

\* the state of the analyzer seen file by file, and of the discovery
analyzerVars == <<initialized, languages, source, analysis, workspace,
                  maxFiles, searchLimit, filesToAnalyze>>

\* the state of the command and of the host around the generation
hostVars == <<cancelRequested, cmdConfigured, parser, analysisStarted,
              tourSaved, tourInStore, tourStarted, analyzerVars>>

\* the notifications of the generate command
messageVars == <<errorsShown, successShown>>

\* the inputs and results of the functions run alone
parseVars == <<responseText, parsedSteps>>
readmeVars == <<readmeLines, cleaned>>

\* the settings and the settings panel of configureLLM
panelVars == <<settings, panel, testResult, lastMessage>>

unitVars == <<parseVars, readmeVars, panelVars>>

\* the state of generateTourInBatches and of validateAndRefineSteps
generationVars == <<hasReadme, wreq, wresp, welcomeSteps, allSteps, batches,
                    groupStart, req, prom, res, tourSteps, maxSteps,
                    validatedSteps, keptIdx>>

(***************************************************************************)
(* Bounds of the model.                                                    *)
(***************************************************************************)
MaxFiles == 15          \* analyzed files of a generation run
MaxRespSteps == 2       \* steps in one batch answer of the service
MaxInputSteps == 2      \* length of a list given to the validator alone
MaxTextLen == 5         \* tokens of a response given to the parser alone
MaxSettingValue == 1    \* values of a setting: 0..MaxSettingValue
MaxRegexLines == 4      \* lines of a file given to the regex fallback alone
MaxReadmeLines == 3     \* lines of a README given to the cleaner alone
ShortLine == 10         \* characters of a line of the README
LongLine == 3000        \* characters of a long line of the README
MaxNodes == 3           \* nodes below the root of a syntax tree
MaxCandidates == 6      \* files of a workspace given to the discovery
MaxLimit == 2           \* largest autoGenerate.maxFilesToAnalyze
MaxStructFiles == 2     \* files of a structure given to the validator alone

(***************************************************************************)
(* Program constants.                                                      *)
(***************************************************************************)
BATCH_SIZE == 4
CONCURRENT_BATCHES == 3
DEFAULT_MAX_STEPS == 20
README_CHARS == 5000

(***************************************************************************)
(* Data model.                                                             *)
(***************************************************************************)
\* a string path "dir/base" ("base" when dir is empty, "" when both are)
Path(dir, base) == [t |-> "string", dir |-> dir, base |-> base]
UndefinedFile == [t |-> "undefined", dir |-> "", base |-> ""]
EmptyFile == Path("", "")
README == Path("", "README.md")

TitleStr(s) == [t |-> "string", s |-> s]
UndefinedTitle == [t |-> "undefined", s |-> ""]
NumberTitle == [t |-> "number", s |-> "42"]

LineNum(n) == [t |-> "number", n |-> n]
UndefinedLine == [t |-> "undefined", n |-> 0]

\* GeneratedTourStep as it comes out of JSON.parse: js is "object", "null"
\* (the element is null) or "primitive" (a number, string or boolean).
\* description stands for the content of the step: <<batch, position>>.
GeneratedTourStep(title, file, line, description) ==
    [js |-> "object", title |-> title, file |-> file, line |-> line,
     description |-> description]
NullStep == [js |-> "null", title |-> UndefinedTitle, file |-> UndefinedFile,
             line |-> UndefinedLine, description |-> <<0, 0>>]
PrimitiveStep == [js |-> "primitive", title |-> UndefinedTitle,
                  file |-> UndefinedFile, line |-> UndefinedLine,
                  description |-> <<0, 0>>]

FileAnalysis(file, elements) == [file |-> file, elements |-> elements]

\* String.prototype.toLowerCase on the basenames of the model
toLowerCase(s) ==
    CASE s = "A.ts" -> "a.ts"
      [] s = "A.TS" -> "a.ts"
      [] s = "README.md" -> "readme.md"
      [] s = "Tests" -> "tests"
      [] OTHER -> s

\* title.includes('Welcome'), case-sensitive
includesWelcome(s) == s \in {"Welcome to project", "A Welcome tour"}

\* truthiness of a file and of a line value
truthyFile(f) == f.t = "string" /\ f # EmptyFile
truthyLine(l) == l.t = "number" /\ l.n # 0

(***************************************************************************)
(* TourGenerator.findSimilarFile: the first file of the structure whose    *)
(* lower-cased basename equals the target's; <<>> stands for null.         *)
(***************************************************************************)
findSimilarFileLast(targetFile, fs) ==
    LET targetName == toLowerCase(targetFile.base)
        hits == {k \in DOMAIN fs : toLowerCase(fs[k].file.base) = targetName}
    IN IF hits = {} THEN <<>>
       ELSE <<fs[CHOOSE k \in hits : \A j \in hits : j <= k].file>>

findSimilarFile(targetFile, fs) ==
    LET targetName == toLowerCase(targetFile.base)
        hits == {k \in DOMAIN fs : toLowerCase(fs[k].file.base) = targetName}
    IN IF hits = {} THEN <<>>
       ELSE <<fs[CHOOSE k \in hits : \A j \in hits : k <= j].file>>

(***************************************************************************)
(* One iteration of the loop of validateAndRefineSteps, before its catch.  *)
(* kind: "push" (validatedSteps.push), "continue" (step skipped) or        *)
(* "throw" (a TypeError raised inside the try block).                      *)
(***************************************************************************)
Thrown == [kind |-> "throw", step |-> NullStep]
Skipped == [kind |-> "continue", step |-> NullStep]

isWelcomeStepAnyIndex(step, i) ==
    step.title.t = "string" /\ includesWelcome(step.title.s)

isWelcomeStep(step, i) ==
    i = 0 /\ step.title.t = "string" /\ includesWelcome(step.title.s)

fileExists(file, fs) == \E k \in DOMAIN fs : fs[k].file = file

validateStepBody(step, i, fs) ==
    IF step.js = "null" THEN Thrown                 \* step.title of null
    ELSE IF i = 0 /\ step.title.t = "number"
    THEN Thrown                                     \* includes is not a function
    ELSE IF ~isWelcomeStep(step, i) /\ ~fileExists(step.file, fs)
            /\ step.file.t = "undefined"
    THEN Thrown                                     \* targetFile.split of undefined
    ELSE
    LET similarFile == findSimilarFile(step.file, fs)
        mapped == ~isWelcomeStep(step, i) /\ ~fileExists(step.file, fs)
        file == IF mapped /\ similarFile # <<>> THEN similarFile[1]
                ELSE step.file
        line == IF truthyLine(step.line) /\ fileExists(file, fs)
                   /\ step.line.n < 1
                THEN LineNum(1) ELSE step.line
    IN IF mapped /\ (similarFile = <<>> \/ ~truthyFile(similarFile[1]))
       THEN Skipped
       ELSE [kind |-> "push",
             step |-> GeneratedTourStep(step.title, file,
                          IF truthyLine(line) THEN line ELSE UndefinedLine,
                          step.description)]

\* the catch of the loop body: the error is logged, the loop goes on
validateStep(step, i, fs) ==
    LET r == validateStepBody(step, i, fs)
    IN IF r.kind = "throw" THEN Skipped ELSE r

\* options.maxSteps || 20
effectiveMaxStepsIgnored(m) == DEFAULT_MAX_STEPS

effectiveMaxSteps(m) == IF m = 0 THEN DEFAULT_MAX_STEPS ELSE m

Min(a, b) == IF a <= b THEN a ELSE b

(***************************************************************************)
(* validateAndRefineSteps: the pairs <<input index, tour step>> pushed, in *)
(* order; status "throw" when an iteration lets an error escape.           *)
(***************************************************************************)
RECURSIVE validateLoop(_, _, _, _, _)
validateLoop(steps, fs, n, i, acc) ==
    IF i >= n THEN [status |-> "ok", out |-> acc]
    ELSE LET r == validateStep(steps[i + 1], i, fs)
         IN CASE r.kind = "throw" -> [status |-> "throw", out |-> acc]
              [] r.kind = "continue" -> validateLoop(steps, fs, n, i + 1, acc)
              [] OTHER -> validateLoop(steps, fs, n, i + 1,
                                       Append(acc, <<i, r.step>>))

validateAndRefineSteps(steps, fs, m) ==
    validateLoop(steps, fs, Min(Len(steps), effectiveMaxSteps(m)), 0, <<>>)

StepsOf(pairs) == [k \in DOMAIN pairs |-> pairs[k][2]]
IndicesOf(pairs) == [k \in DOMAIN pairs |-> pairs[k][1]]

(***************************************************************************)
(* BatchTourGenerator: filtering, scoring and batching of the files.       *)
(***************************************************************************)
\* the substring tests of filterImportantFiles on the lower-cased path
isNoiseFile(file) ==
    \/ file.dir \in {"test", "tests", "__tests__", "config", "dist", "build",
                     "node_modules"}
    \/ file.base \in {"a.test.ts", "a.spec.ts", "a.config.ts",
                      "a.generated.ts", "a.min.js", "a.d.ts"}

filterImportantFiles(fs) ==
    SelectSeq(fs, LAMBDA f : ~isNoiseFile(f.file) /\ f.elements # 0)

getFileImportance(f) ==
    (IF f.file.base \in {"index.ts", "main.ts", "app.ts"} THEN 100 ELSE 0)
    + (IF f.file.dir \in {"src", "lib"} THEN 50 ELSE 0)
    + f.elements * 5
    - (IF f.file.dir \in {"test", "tests", "__tests__"}
          \/ f.file.base \in {"a.test.ts", "a.spec.ts"} THEN 50 ELSE 0)

\* Array.prototype.sort with (a, b) => bScore - aScore: stable, descending
RECURSIVE insertByScore(_, _)
insertByScore(sorted, f) ==
    IF sorted = <<>> THEN <<f>>
    ELSE IF getFileImportance(Head(sorted)) >= getFileImportance(f)
         THEN <<Head(sorted)>> \o insertByScore(Tail(sorted), f)
         ELSE <<f>> \o sorted

RECURSIVE sortByImportance(_)
sortByImportance(fs) ==
    IF fs = <<>> THEN <<>>
    ELSE insertByScore(sortByImportance(SubSeq(fs, 1, Len(fs) - 1)),
                       fs[Len(fs)])

\* formatBatchStructure: one section per file of the batch, headed by its
\* path
formatBatchStructure(batch) == [k \in DOMAIN batch |-> batch[k].file]

createFileBatchesUnsorted(fs) ==
    LET n == (Len(fs) + BATCH_SIZE - 1) \div BATCH_SIZE
    IN [k \in 1..n |->
           SubSeq(fs, (k - 1) * BATCH_SIZE + 1, Min(k * BATCH_SIZE, Len(fs)))]

createFileBatches(fs) ==
    LET sortedFiles == sortByImportance(fs)
        n == (Len(sortedFiles) + BATCH_SIZE - 1) \div BATCH_SIZE
    IN [k \in 1..n |->
           SubSeq(sortedFiles, (k - 1) * BATCH_SIZE + 1,
                  Min(k * BATCH_SIZE, Len(sortedFiles)))]

(***************************************************************************)
(* The generation service and the parsing of its answers.                  *)
(* An answer is a record: kind "array" (the text holds a JSON array, whose *)
(* elements are steps), "prose" (no array in the text), "badjson" (the     *)
(* bracketed text does not parse), "nocontent" (content is undefined),     *)
(* "error" (the call throws) and "none" (no answer).                       *)
(***************************************************************************)
Answer(kind, steps) == [kind |-> kind, steps |-> steps]
NoAnswer == Answer("none", <<>>)

parseStepsFromResponse(response) ==
    IF response.kind = "array" THEN response.steps ELSE <<>>

(***************************************************************************)
(* parseStepsFromResponse on the text of a response.                       *)
(* A text is a sequence of tokens: "[" and "]", "v" (a JSON value that is  *)
(* a step object, with the comma it needs) and "p" (a character of prose). *)
(***************************************************************************)
ResponseText(s) == [t |-> "string", s |-> s]
UndefinedResponse == [t |-> "undefined", s |-> <<>>]

Tokens == {"[", "]", "v", "p"}

Positions(s, token) == {i \in DOMAIN s : s[i] = token}

MinOf(S) == CHOOSE m \in S : \A k \in S : m <= k
MaxOf(S) == CHOOSE m \in S : \A k \in S : k <= m

\* response.match(/\[[\s\S]*\]/): from the first "[" to the last "]";
\* <<>> stands for null
matchBrackets(s) ==
    LET opens == Positions(s, "[")
        closes == Positions(s, "]")
    IN IF opens # {} /\ closes # {} /\ MinOf(opens) < MaxOf(closes)
       THEN SubSeq(s, MinOf(opens), MaxOf(closes))
       ELSE <<>>

\* the nesting depth after the first i tokens
RECURSIVE depthAfter(_, _)
depthAfter(s, i) ==
    IF i = 0 THEN 0
    ELSE depthAfter(s, i - 1)
         + (IF s[i] = "[" THEN 1 ELSE IF s[i] = "]" THEN -1 ELSE 0)

\* JSON.parse accepts a text that begins with "[": no prose, and the first
\* bracket closes at the end
isJsonArray(s) ==
    /\ s # <<>>
    /\ s[1] = "["
    /\ \A i \in DOMAIN s : s[i] # "p"
    /\ \A i \in 1..(Len(s) - 1) : depthAfter(s, i) >= 1
    /\ depthAfter(s, Len(s)) = 0

\* the items of the parsed array: a step object or a nested array
jsonItems(s) ==
    LET at == SelectSeq([i \in 1..Len(s) |-> i],
                        LAMBDA i : /\ depthAfter(s, i - 1) = 1
                                   /\ s[i] \in {"v", "["})
    IN [k \in DOMAIN at |-> IF s[at[k]] = "v" THEN "step" ELSE "array"]

\* the try block: a TypeError on undefined, no match, and a SyntaxError of
\* JSON.parse are caught and give []
parseStepsFromText(response) ==
    IF response.t = "undefined" THEN <<>>
    ELSE LET jsonMatch == matchBrackets(response.s)
         IN IF jsonMatch = <<>> THEN <<>>
            ELSE IF isJsonArray(jsonMatch) THEN jsonItems(jsonMatch)
            ELSE <<>>

\* the functions run alone and the settings panel, at rest
UnitIdle ==
    /\ responseText = UndefinedResponse
    /\ parsedSteps = <<>>
    /\ readmeLines = <<>>
    /\ cleaned = <<>>
    /\ settings = 0
    /\ panel = "closed"
    /\ testResult = "none"
    /\ lastMessage = "none"

(***************************************************************************)
(* cleanReadmeContent.  A line of the README is what the tests of the loop *)
(* see of it: "badge", "sponsor" (a sponsor or thank-you line, heading or  *)
(* not), "ad", "heading" (level 1 to 3), "adHeading" (a heading that the   *)
(* ad patterns match, as "## Try it now"), "plain" and "long" (plain).     *)
(* The result is the kept lines, each with the number of its characters    *)
(* that are in the returned text.                                          *)
(***************************************************************************)
LineKinds == {"badge", "sponsor", "ad", "heading", "adHeading", "plain",
              "long"}

ReadmeLine(kind) ==
    [kind |-> kind, length |-> IF kind = "long" THEN LongLine ELSE ShortLine]

isBadgeLine(l) == l.kind = "badge"
isSponsorLine(l) == l.kind = "sponsor"
isAdLine(l) == l.kind \in {"ad", "adHeading"}
isHeadingLine(l) == l.kind \in {"heading", "adHeading"}

\* the for loop: the positions of the lines pushed to cleaned
RECURSIVE cleanLoop(_, _, _, _)
cleanLoop(lines, i, kept, skipSection) ==
    IF i > Len(lines) THEN kept
    ELSE IF isBadgeLine(lines[i])
    THEN cleanLoop(lines, i + 1, kept, skipSection)
    ELSE IF isSponsorLine(lines[i])
    THEN cleanLoop(lines, i + 1, kept, TRUE)
    ELSE IF isAdLine(lines[i])
    THEN cleanLoop(lines, i + 1, kept, skipSection)
    ELSE LET skip1 == skipSection /\ ~isHeadingLine(lines[i])
         IN cleanLoop(lines, i + 1,
                      IF skip1 THEN kept ELSE Append(kept, i), skip1)

\* cleaned.join('\n').slice(0, 5000)
RECURSIVE joinAndSlice(_, _, _, _)
joinAndSlice(lines, kept, k, offset) ==
    IF k > Len(kept) \/ offset >= README_CHARS THEN <<>>
    ELSE <<[line |-> kept[k],
            chars |-> Min(lines[kept[k]].length, README_CHARS - offset)]>>
         \o joinAndSlice(lines, kept, k + 1,
                         offset + lines[kept[k]].length + 1)

cleanReadmeContent(lines) ==
    joinAndSlice(lines, cleanLoop(lines, 1, <<>>, FALSE), 1, 0)

(***************************************************************************)
(* generateWelcomePage.                                                    *)
(***************************************************************************)
resolveWelcomeFileReadme(fs, readme) == README

resolveWelcomeFile(fs, readme) ==
    IF readme THEN README
    ELSE IF Len(fs) > 0 THEN fs[1].file ELSE README

fallbackStep(welcomeFile) ==
    GeneratedTourStep(TitleStr("Welcome to project"), welcomeFile,
                      LineNum(1), <<0, 0>>)

\* return steps.slice(0, 1)
welcomeSliceAll(steps) == steps

welcomeSlice(steps) == SubSeq(steps, 1, 1)

\* the catch block: the fallback welcome step
welcomeCatchEmpty(welcomeFile) == <<>>

welcomeCatch(welcomeFile) == <<fallbackStep(welcomeFile)>>

\* the try block, from the answer of generateCompletion on
generateWelcomePage(response, welcomeFile) ==
    LET steps == parseStepsFromResponse(response)
    IN IF response.kind \in {"error", "none"}
       THEN welcomeCatch(welcomeFile)          \* generateCompletion throws
       ELSE IF Len(steps) = 0
       THEN welcomeCatch(welcomeFile)          \* "No steps generated"
       ELSE IF steps[1].js = "null"
       THEN welcomeCatch(welcomeFile)          \* steps[0].title of null
       ELSE IF ~truthyFile(steps[1].file) \/ steps[1].file = README
       THEN IF steps[1].js = "primitive"
            THEN welcomeCatch(welcomeFile)     \* property set on a primitive
            ELSE welcomeSlice(
                   <<[steps[1] EXCEPT !.file = welcomeFile]>>
                   \o Tail(steps))
       ELSE welcomeSlice(steps)

(***************************************************************************)
(* The batch promises of one group.                                        *)
(* prom[b]: "none", "pending", fulfilled as "steps" (parsed answer),       *)
(* "malformed" (parseStepsFromResponse caught the error), "error"          *)
(* (generateBatchSteps caught the service error), "unconfigured",          *)
(* "timeout" (the wrapper caught the rejected race), or "rejected".        *)
(***************************************************************************)
Fulfilled == {"steps", "malformed", "error", "unconfigured", "timeout"}

NB == Len(batches)

\* batch numbers (1-based) of batches.slice(groupStart, groupStart + 3)
GroupOf(gs) == {b \in 1..NB : gs < b /\ b <= gs + CONCURRENT_BATCHES}

\* generateBatchWithTimeout: the state of the race when the request is
\* pending and the timer has fired (timerFired) or not
generateBatchWithoutTimeout(timerFired) == "pending"

generateBatchWithTimeout(timerFired) ==
    IF timerFired THEN "rejected" ELSE "pending"

\* catch of the batch wrapper: return []
catchBatchRethrow(cause) == "rejected"

catchBatch(cause) == cause

\* Promise.all(batchPromises) has settled
promiseAnySettled(p, group) ==
    \/ \E b \in group : p[b] \in Fulfilled
    \/ \E b \in group : p[b] = "rejected"

promiseAllSettled(p, group) ==
    \/ \A b \in group : p[b] \in Fulfilled
    \/ \E b \in group : p[b] = "rejected"

RECURSIVE Flatten(_)
Flatten(seqs) ==
    IF seqs = <<>> THEN <<>> ELSE Head(seqs) \o Flatten(Tail(seqs))

Reverse(s) == [k \in DOMAIN s |-> s[Len(s) + 1 - k]]

\* groupResults.forEach(steps => allSteps.push(...steps))
mergeGroupReversed(all, groupResults) == all \o Flatten(Reverse(groupResults))

mergeGroup(all, groupResults) == all \o Flatten(groupResults)

(***************************************************************************)
(* TreeSitterAnalyzer: syntax trees and extractElements.                   *)
(* A tree is the sequence of its nodes in document order, node 1 the root; *)
(* a node starts on its own row and ends on the row of its last            *)
(* descendant.  The name of a node stands for the text of its name field.  *)
(***************************************************************************)
SyntaxNode(type, parent) == [type |-> type, parent |-> parent]

NodeTypes == {"class_declaration", "class_body", "method_definition",
              "function_declaration", "function_definition",
              "export_statement", "lexical_declaration",
              "variable_declarator", "arrow_function", "number"}

\* the nesting the grammars allow (blocks and bodies of functions are left
\* out: a declaration in a function is a child of the function)
FunctionLike == {"method_definition", "function_declaration",
                 "function_definition", "arrow_function"}

mayContain(parentType, type) ==
    CASE type = "class_body" -> parentType = "class_declaration"
      [] type = "method_definition" -> parentType = "class_body"
      [] type = "variable_declarator" -> parentType = "lexical_declaration"
      [] type \in {"arrow_function", "number"} ->
            parentType = "variable_declarator"
      [] type = "export_statement" -> parentType = "program"
      [] type \in {"class_declaration", "lexical_declaration"} ->
            parentType \in {"program", "export_statement"} \cup FunctionLike
      [] type = "function_declaration" ->
            parentType \in {"program", "export_statement", "class_body"}
                           \cup FunctionLike
      [] type = "function_definition" ->
            parentType \in {"program", "class_body"} \cup FunctionLike
      [] OTHER -> FALSE

RECURSIVE isAncestorOrSelf(_, _, _)
isAncestorOrSelf(tree, a, n) ==
    IF n = a THEN TRUE
    ELSE IF n < a THEN FALSE
    ELSE isAncestorOrSelf(tree, a, tree[n].parent)

\* node.children
children(tree, n) ==
    SelectSeq([j \in 1..Len(tree) |-> j], LAMBDA j : tree[j].parent = n)

\* node.startPosition.row and node.endPosition.row
startRow(tree, n) == n - 1

endRow(tree, n) ==
    (CHOOSE j \in n..Len(tree) :
        /\ isAncestorOrSelf(tree, n, j)
        /\ \A k \in (j + 1)..Len(tree) : ~isAncestorOrSelf(tree, n, k)) - 1

CodeElement(type, name, line, endLine) ==
    [type |-> type, name |-> name, line |-> line, endLine |-> endLine,
     children |-> <<>>]

NoElement == CodeElement("null", 0, 0, 0)

isMethodNodeNever(tree, n) == FALSE

isMethodNode(tree, n) ==
    \/ tree[n].type = "method_definition"
    \/ tree[n].type = "function_definition"
    \/ /\ tree[n].parent # 0
       /\ tree[tree[n].parent].type = "class_body"
       /\ tree[n].type \in {"function_declaration", "method_declaration"}

typeMap(type) ==
    CASE type \in {"class_declaration", "class_definition"} -> "class"
      [] type \in {"function_declaration", "function_definition"} -> "function"
      [] type \in {"method_definition", "method_declaration"} -> "method"
      [] type \in {"interface_declaration", "type_alias_declaration"} ->
            "interface"
      [] type = "enum_declaration" -> "enum"
      [] OTHER -> "undefined"

\* a declarator has its name; its value, when it has one, is its first child
declaredElement(tree, n) ==
    LET declarators ==
            SelectSeq(children(tree, n),
                      LAMBDA c : /\ tree[c].type = "variable_declarator"
                                 /\ children(tree, c) # <<>>)
        c == Head(declarators)
        valueNode == Head(children(tree, c))
    IN IF declarators = <<>> THEN NoElement
       ELSE CodeElement(
                IF tree[valueNode].type \in {"arrow_function", "function",
                                             "function_expression"}
                THEN "function" ELSE "variable",
                c, startRow(tree, n) + 1, endRow(tree, n) + 1)

RECURSIVE nodeToElement(_, _)
nodeToElement(tree, n) ==
    LET elementType == typeMap(tree[n].type)
        exported ==
            SelectSeq(children(tree, n),
                      LAMBDA c : tree[c].type \in
                          {"lexical_declaration", "variable_declaration",
                           "function_declaration", "class_declaration"})
    IN IF elementType # "undefined"
       THEN CodeElement(elementType, n, startRow(tree, n) + 1,
                        endRow(tree, n) + 1)
       ELSE IF tree[n].type \in {"lexical_declaration", "variable_declaration"}
       THEN declaredElement(tree, n)
       ELSE IF tree[n].type = "export_statement" /\ exported # <<>>
       THEN nodeToElement(tree, Head(exported))
       ELSE NoElement

\* traverse of extractElements; parent is the position in elements of the
\* class element given as parent (0: none).  A class element is never a
\* method node, so it is always pushed to elements.
RECURSIVE traverse(_, _, _, _)
RECURSIVE traverseChildren(_, _, _, _)
traverseChildren(tree, kids, parent, elements) ==
    IF kids = <<>> THEN elements
    ELSE traverseChildren(tree, Tail(kids), parent,
                          traverse(tree, Head(kids), parent, elements))

traverse(tree, n, parent, elements) ==
    LET element == nodeToElement(tree, n)
        pushed == IF parent # 0 /\ isMethodNode(tree, n)
                  THEN [elements EXCEPT
                            ![parent].children = Append(@, element)]
                  ELSE Append(elements, element)
    IN IF element = NoElement
       THEN traverseChildren(tree, children(tree, n), parent, elements)
       ELSE IF element.type = "class"
       THEN traverseChildren(tree, children(tree, n), Len(pushed), pushed)
       ELSE traverseChildren(tree, children(tree, n), parent, pushed)

extractElements(tree) == traverse(tree, 1, 0, <<>>)

(***************************************************************************)
(* TreeSitterAnalyzer: analyzeFile and its regex fallback.                 *)
(* A file is its languageId, the tree its grammar builds, and its lines as *)
(* the patterns of analyzeFileRegex see them.                              *)
(***************************************************************************)
SourceLine(kind, indent) == [kind |-> kind, indent |-> indent]

\* raises: what the grammar path throws on this file ("none", "parse",
\* "extract")
Source(languageId, tree, lines, raises) ==
    [file |-> Path("src", "a.ts"), languageId |-> languageId, tree |-> tree,
     lines |-> lines, raises |-> raises]

FileAnalysisOf(src, elements) ==
    [js |-> "object", file |-> src.file, language |-> src.languageId,
     elements |-> elements]

NullAnalysis ==
    [js |-> "null", file |-> EmptyFile, language |-> "", elements |-> <<>>]

ThrownAnalysis ==
    [js |-> "throw", file |-> EmptyFile, language |-> "", elements |-> <<>>]

\* if (currentClass && indent > currentIndent)
attachesAtEqualIndent(currentClass, indent, currentIndent) ==
    currentClass # 0 /\ indent >= currentIndent

attachesToClass(currentClass, indent, currentIndent) ==
    currentClass # 0 /\ indent > currentIndent

\* lines.forEach of analyzeFileRegex: currentClass is the position in
\* elements of the current class element (0: null)
RECURSIVE regexLines(_, _, _, _, _)
regexLines(lines, index, elements, currentClass, currentIndent) ==
    IF index > Len(lines) THEN elements
    ELSE LET line == lines[index]
             classMatch == line.kind = "class"
             methodMatch == line.kind = "method"
             class1 == IF classMatch THEN Len(elements) + 1 ELSE currentClass
             indent1 == IF classMatch THEN line.indent ELSE currentIndent
             elements1 ==
                 IF classMatch
                 THEN Append(elements, CodeElement("class", index, index,
                                                   index))
                 ELSE elements
             method == CodeElement("function", index, index, index)
             nested == attachesToClass(class1, line.indent, indent1)
         IN IF ~methodMatch
            THEN regexLines(lines, index + 1, elements1, class1, indent1)
            ELSE IF nested
            THEN regexLines(lines, index + 1,
                     [elements1 EXCEPT ![class1].children = Append(@, method)],
                     class1, indent1)
            ELSE regexLines(lines, index + 1, Append(elements1, method), 0,
                            indent1)

analyzeFileRegex(src) ==
    FileAnalysisOf(src,
        IF src.languageId \in {"typescript", "javascript"}
        THEN regexLines(src.lines, 1, <<>>, 0, 0)
        ELSE <<>>)

getLanguage(languageId, loaded) ==
    LET mappedLang ==
            CASE languageId = "typescript" -> "typescript"
              [] languageId = "typescriptreact" -> "tsx"
              [] languageId = "javascript" -> "javascript"
              [] languageId = "javascriptreact" -> "jsx"
              [] languageId = "python" -> "python"
              [] OTHER -> "undefined"
    IN IF mappedLang \in loaded THEN mappedLang ELSE "null"

\* the catch of the grammar path logs and falls through to the fallback
catchParseRethrow(src) == ThrownAnalysis

catchParse(src) == analyzeFileRegex(src)

\* analyzeFile once the analyzer is initialized
analyzeFile(src, theParser, loaded) ==
    IF theParser = "ready" /\ getLanguage(src.languageId, loaded) # "null"
    THEN IF src.raises = "none"
         THEN FileAnalysisOf(src, extractElements(src.tree))
         ELSE catchParse(src)
    ELSE analyzeFileRegex(src)

\* what initialize leaves: Parser.init or new Parser() throws, or each
\* grammar is loaded or not
Grammars == {{"typescript", "tsx"}, {"javascript", "jsx"}, {"python"}}

initializeOutcomes ==
    {[parser |-> "null", languages |-> {}]}
    \cup {[parser |-> "ready", languages |-> UNION loaded] :
             loaded \in SUBSET Grammars}

(***************************************************************************)
(* TreeSitterAnalyzer.analyzeProject: the discovery of the files.          *)
(***************************************************************************)
Limit(n) == [t |-> "number", n |-> n]
UndefinedLimit == [t |-> "undefined", n |-> 0]

\* relativePath.toLowerCase()
lowerPath(file) == Path(toLowerCase(file.dir), toLowerCase(file.base))

\* the substring tests of the second filter on the lower-cased path
isSecondPassNoise(file) ==
    LET relativePath == lowerPath(file)
    IN \/ relativePath.base \in {"a.test.ts", "a.spec.ts", "a.config.ts",
                                 "a.generated.ts", "a.min.js"}
       \/ relativePath.dir \in {"test", "tests", "__test__", "config"}

cleanedFiles(foundFiles) ==
    SelectSeq(foundFiles, LAMBDA uri : ~isSecondPassNoise(uri))

\* the score of prioritizeFiles
priority(file) ==
    LET relativePath == lowerPath(file)
        depth == IF relativePath.dir = "" THEN 1 ELSE 2
    IN (IF relativePath.base \in {"index.ts", "main.ts", "app.ts"}
        THEN 100 ELSE 0)
       + (IF relativePath.dir \in {"src", "lib"} THEN 50 ELSE 0)
       - (IF relativePath.dir \in {"test", "tests", "__test__"}
             \/ relativePath.base \in {"a.test.ts", "a.spec.ts"}
          THEN 50 ELSE 0)
       - depth * 2
       - (IF relativePath.dir = "config"
             \/ relativePath.base = "a.config.ts" THEN 30 ELSE 0)
       + (IF relativePath.base = "types.ts" THEN 10 ELSE 0)

\* scored.sort((a, b) => b.score - a.score): stable, descending
RECURSIVE insertByPriority(_, _)
insertByPriority(sorted, f) ==
    IF sorted = <<>> THEN <<f>>
    ELSE IF priority(Head(sorted)) >= priority(f)
         THEN <<Head(sorted)>> \o insertByPriority(Tail(sorted), f)
         ELSE <<f>> \o sorted

RECURSIVE prioritizeFiles(_)
prioritizeFiles(fs) ==
    IF fs = <<>> THEN <<>>
    ELSE insertByPriority(prioritizeFiles(SubSeq(fs, 1, Len(fs) - 1)),
                          fs[Len(fs)])

searchLimitOf(limit) == IF limit = 0 THEN UndefinedLimit ELSE Limit(limit * 3)

sliceAll(prioritized, limit) == prioritized

sliceToLimit(prioritized, limit) ==
    IF limit = 0 THEN prioritized
    ELSE SubSeq(prioritized, 1, Min(limit, Len(prioritized)))

\* the analyzer before any call, and no discovery
AnalyzerIdle ==
    /\ initialized = FALSE
    /\ languages = {}
    /\ source = Source("typescript", <<SyntaxNode("program", 0)>>, <<>>,
                       "none")
    /\ analysis = NullAnalysis
    /\ workspace = <<>>
    /\ maxFiles = 0
    /\ searchLimit = UndefinedLimit
    /\ filesToAnalyze = <<>>

(***************************************************************************)
(* The inputs of a generation run.                                         *)
(***************************************************************************)
UnknownFile == Path("docs", "guide.md")

\* the i-th analyzed file of the project
ProjectFile(i) ==
    FileAnalysis(
        Path(IF i = 3 THEN "test" ELSE "src",
             IF i = 5 THEN "main.ts" ELSE "f" \o ToString(i) \o ".ts"),
        IF i = 2 THEN 0 ELSE 1 + (i % 2))

ProjectFiles == [i \in 1..MaxFiles |-> ProjectFile(i)]

BatchIds == 1..((MaxFiles + BATCH_SIZE - 1) \div BATCH_SIZE)

\* the answers of the service to the request of batch b
\* (k steps: the first on the first file of the batch, the others on a
\* file that was not analyzed)
BatchSteps(b, k) ==
    [j \in 1..k |->
        GeneratedTourStep(TitleStr("Step"),
                          IF j = 1 THEN batches[b][1].file ELSE UnknownFile,
                          LineNum(3), <<b, j>>)]

BatchAnswers(b) ==
    {Answer("array", BatchSteps(b, k)) : k \in 0..MaxRespSteps}
    \cup {Answer("prose", <<>>), Answer("badjson", <<>>),
          Answer("nocontent", <<>>)}

\* the answers of the service to the welcome request
WelcomeCandidate(title, file) ==
    GeneratedTourStep(TitleStr(title), file, LineNum(1), <<0, 1>>)

WelcomeCandidates ==
    {WelcomeCandidate(title, file) :
        title \in {"Welcome to project", "Project Overview"},
        file \in {EmptyFile, README}}
    \cup {WelcomeCandidate("Welcome to project", Path("docs", "intro.md"))}

SecondStep == GeneratedTourStep(TitleStr("Second"), UnknownFile,
                                LineNum(1), <<0, 2>>)

WelcomeAnswers ==
    {Answer("array", <<c>>) : c \in WelcomeCandidates}
    \cup {Answer("array", <<WelcomeCandidate("Welcome to project", README),
                           SecondStep>>),
          Answer("array", <<>>), Answer("array", <<NullStep>>),
          Answer("array", <<PrimitiveStep>>),
          Answer("prose", <<>>), Answer("badjson", <<>>),
          Answer("nocontent", <<>>), Answer("error", <<>>)}

\* sizes of the analyzed project: no file, one batch, a group that is not
\* full, and more than one group
FileCounts == {0, 1, 2 * BATCH_SIZE, MaxFiles}

Init ==
    /\ files \in {SubSeq(ProjectFiles, 1, n) : n \in FileCounts}
    /\ hasReadme \in BOOLEAN
    /\ configured \in BOOLEAN
    /\ pc = "welcome"
    /\ wreq = "idle"
    /\ wresp = NoAnswer
    /\ welcomeSteps = <<>>
    /\ allSteps = <<>>
    /\ batches = <<>>
    /\ groupStart = 0
    /\ req = [b \in BatchIds |-> "idle"]
    /\ prom = [b \in BatchIds |-> "none"]
    /\ res = [b \in BatchIds |-> <<>>]
    /\ tourSteps = <<>>
    /\ maxSteps = 0
    /\ validatedSteps = <<>>
    /\ keptIdx = <<>>
    /\ cancelRequested = FALSE
    /\ cmdConfigured = TRUE
    /\ parser = "ready"
    /\ analysisStarted = TRUE
    /\ tourSaved = FALSE
    /\ tourInStore = FALSE
    /\ tourStarted = FALSE
    /\ AnalyzerIdle
    /\ UnitIdle
    /\ errorsShown = 0
    /\ successShown = 0

(***************************************************************************)
(* generateTourInBatches, pass 1: the welcome page.                        *)
(***************************************************************************)
\* generateWelcomePage has returned ws: push it, build the batches
WelcomeReturn(ws) ==
    /\ welcomeSteps' = ws
    /\ allSteps' = IF Len(ws) = 0 THEN allSteps ELSE allSteps \o ws
    /\ batches' = createFileBatches(filterImportantFiles(files))
    /\ groupStart' = 0
    /\ pc' = "issue"

\* generateWelcomePage up to the await of generateCompletion
WelcomeCall ==
    /\ pc = "welcome"
    /\ IF configured
       THEN /\ wreq' = "inflight"
            /\ wresp' \in WelcomeAnswers
            /\ pc' = "welcomeWait"
            /\ UNCHANGED <<welcomeSteps, allSteps, batches, groupStart>>
       ELSE /\ WelcomeReturn(generateWelcomePage(Answer("error", <<>>),
                                resolveWelcomeFile(files, hasReadme)))
            /\ UNCHANGED <<wreq, wresp>>
    /\ UNCHANGED <<files, hasReadme, configured, req, prom, res, tourSteps,
                   maxSteps, validatedSteps, keptIdx>>
    /\ UNCHANGED hostVars
    /\ UNCHANGED unitVars
    /\ UNCHANGED messageVars

\* the welcome request settles: rest of generateWelcomePage
WelcomeSettle ==
    /\ pc = "welcomeWait"
    /\ wreq = "inflight"
    /\ WelcomeReturn(generateWelcomePage(wresp,
                         resolveWelcomeFile(files, hasReadme)))
    /\ wreq' = "done"
    /\ wresp' = NoAnswer
    /\ UNCHANGED <<files, hasReadme, configured, req, prom, res, tourSteps,
                   maxSteps, validatedSteps, keptIdx>>
    /\ UNCHANGED hostVars
    /\ UNCHANGED unitVars
    /\ UNCHANGED messageVars

(***************************************************************************)
(* generateTourInBatches, pass 2: the concurrent groups.                   *)
(***************************************************************************)
\* batchGroup.map(async ...): every batch of the group runs up to its await
IssueGroup ==
    /\ pc = "issue"
    /\ groupStart < NB
    /\ req' = [b \in BatchIds |->
                 IF b \in GroupOf(groupStart) /\ configured
                 THEN "inflight" ELSE req[b]]
    /\ prom' = [b \in BatchIds |->
                  IF b \in GroupOf(groupStart) THEN "pending" ELSE prom[b]]
    /\ pc' = "await"
    /\ UNCHANGED <<files, hasReadme, configured, wreq, wresp, welcomeSteps,
                   allSteps, batches, groupStart, res, tourSteps, maxSteps,
                   validatedSteps, keptIdx>>
    /\ UNCHANGED hostVars
    /\ UNCHANGED unitVars
    /\ UNCHANGED messageVars

\* a settlement of the race of batch b reaches the batch promise
Settle(b, how, steps) ==
    IF prom[b] = "pending"
    THEN /\ prom' = [prom EXCEPT ![b] = how]
         /\ res' = [res EXCEPT ![b] = steps]
    ELSE UNCHANGED <<prom, res>>

\* generateCompletion throws at once: no credential
BatchUnconfigured(b) ==
    /\ prom[b] = "pending"
    /\ req[b] = "idle"
    /\ ~configured
    /\ Settle(b, "unconfigured", <<>>)
    /\ UNCHANGED <<files, hasReadme, configured, pc, wreq, wresp,
                   welcomeSteps, allSteps, batches, groupStart, req,
                   tourSteps, maxSteps, validatedSteps, keptIdx>>
    /\ UNCHANGED hostVars
    /\ UNCHANGED unitVars
    /\ UNCHANGED messageVars

\* the service answers the request of batch b (it may also never answer)
Respond(b) ==
    /\ req[b] = "inflight"
    /\ \E response \in BatchAnswers(b) :
         Settle(b, IF response.kind = "array" THEN "steps" ELSE "malformed",
                parseStepsFromResponse(response))
    /\ req' = [req EXCEPT ![b] = "done"]
    /\ UNCHANGED <<files, hasReadme, configured, pc, wreq, wresp,
                   welcomeSteps, allSteps, batches, groupStart, tourSteps,
                   maxSteps, validatedSteps, keptIdx>>
    /\ UNCHANGED hostVars
    /\ UNCHANGED unitVars
    /\ UNCHANGED messageVars

\* the request of batch b fails: generateBatchSteps returns []
ServiceError(b) ==
    /\ req[b] = "inflight"
    /\ Settle(b, "error", <<>>)
    /\ req' = [req EXCEPT ![b] = "done"]
    /\ UNCHANGED <<files, hasReadme, configured, pc, wreq, wresp,
                   welcomeSteps, allSteps, batches, groupStart, tourSteps,
                   maxSteps, validatedSteps, keptIdx>>
    /\ UNCHANGED hostVars
    /\ UNCHANGED unitVars
    /\ UNCHANGED messageVars

\* the 45 s timer of batch b fires before the request has settled
TimerFire(b) ==
    /\ prom[b] = "pending"
    /\ req[b] = "inflight"
    /\ Settle(b, IF generateBatchWithTimeout(TRUE) = "rejected"
                  THEN catchBatch("timeout") ELSE "pending", <<>>)
    /\ UNCHANGED <<files, hasReadme, configured, pc, wreq, wresp,
                   welcomeSteps, allSteps, batches, groupStart, req,
                   tourSteps, maxSteps, validatedSteps, keptIdx>>
    /\ UNCHANGED hostVars
    /\ UNCHANGED unitVars
    /\ UNCHANGED messageVars

groupResults(gs) ==
    [k \in 1..Cardinality(GroupOf(gs)) |-> res[gs + k]]

\* await Promise.all(batchPromises), then the merge of the group
AwaitGroup ==
    /\ pc = "await"
    /\ promiseAllSettled(prom, GroupOf(groupStart))
    /\ IF \E b \in GroupOf(groupStart) : prom[b] = "rejected"
       THEN /\ pc' = "rejected"
            /\ UNCHANGED <<allSteps, groupStart>>
       ELSE /\ allSteps' = mergeGroup(allSteps, groupResults(groupStart))
            /\ groupStart' = groupStart + CONCURRENT_BATCHES
            /\ pc' = "issue"
    /\ UNCHANGED <<files, hasReadme, configured, wreq, wresp, welcomeSteps,
                   batches, req, prom, res, tourSteps, maxSteps,
                   validatedSteps, keptIdx>>
    /\ UNCHANGED hostVars
    /\ UNCHANGED unitVars
    /\ UNCHANGED messageVars

\* the loop is over: return allSteps to generateTour
Return ==
    /\ pc = "issue"
    /\ groupStart >= NB
    /\ tourSteps' = allSteps
    /\ pc' = "returned"
    /\ UNCHANGED <<files, hasReadme, configured, wreq, wresp, welcomeSteps,
                   allSteps, batches, groupStart, req, prom, res, maxSteps,
                   validatedSteps, keptIdx>>
    /\ UNCHANGED hostVars
    /\ UNCHANGED unitVars
    /\ UNCHANGED messageVars

(***************************************************************************)
(* generateTour, step 5: validation of the generated steps.                *)
(***************************************************************************)
\* if (token.isCancellationRequested) throw new Error("... cancelled")
checkpointIgnored(requested) == FALSE

checkpointAlways(requested) == TRUE

checkpoint(requested) == requested

\* checkpoint after the batch generation, validation, createTour
Validate ==
    /\ pc = "returned"
    /\ ~checkpoint(cancelRequested)
    /\ LET r == validateAndRefineSteps(tourSteps, files, maxSteps)
       IN /\ validatedSteps' = StepsOf(r.out)
          /\ keptIdx' = IndicesOf(r.out)
          /\ pc' = IF r.status = "ok" THEN "done" ELSE "failed"
    /\ UNCHANGED <<files, hasReadme, configured, wreq, wresp, welcomeSteps,
                   allSteps, batches, groupStart, req, prom, res, tourSteps,
                   maxSteps>>
    /\ UNCHANGED hostVars
    /\ UNCHANGED unitVars
    /\ UNCHANGED messageVars

Next ==
    \/ WelcomeCall
    \/ WelcomeSettle
    \/ IssueGroup
    \/ \E b \in BatchIds : BatchUnconfigured(b)
    \/ \E b \in BatchIds : Respond(b)
    \/ \E b \in BatchIds : ServiceError(b)
    \/ \E b \in BatchIds : TimerFire(b)
    \/ AwaitGroup
    \/ Return
    \/ Validate

Spec == Init /\ [][Next]_vars

\* the event loop runs every continuation of generateTourInBatches that is
\* ready, and every timer fires
Continuation == IssueGroup \/ AwaitGroup \/ Return

Timers == \E b \in BatchIds : TimerFire(b) \/ BatchUnconfigured(b)

FairSpec == Spec /\ WF_vars(Continuation) /\ WF_vars(Timers)

(***************************************************************************)
(* The generateTour command around the generation: configuration check,    *)
(* the stages of TourGenerator.generateTour with their cancellation        *)
(* checkpoints, and the persistence of the returned tour.                  *)
(* pc: "command", "askConfigure", "configuring", "inputs", "init",         *)
(* "analyze", then the positions of the generation, "done" (the tour is    *)
(* built, logger.save is awaited), "askStart", and the ends of the         *)
(* command: "exit" (returned) and "cancelled" (the cancellation error was  *)
(* thrown by generateTour and reported by the command).                    *)
(***************************************************************************)
\* sizes of the project found by analyzeProject in a run of the command
RunFileCounts == {0, 2 * BATCH_SIZE}

\* the files whose openTextDocument or analyzeFile throws are left out
analyzedFiles(found, failing) ==
    LET kept == SelectSeq([i \in 1..Len(found) |-> i],
                          LAMBDA i : i \notin failing)
    IN [k \in DOMAIN kept |-> found[kept[k]]]

ReadFailures(n) == {{}, {1}, 1..n}

InProgress == {"init", "analyze", "welcome", "welcomeWait", "issue", "await",
               "returned", "done"}

InitRun ==
    /\ files = <<>>
    /\ hasReadme \in BOOLEAN
    /\ configured = FALSE
    /\ pc = "command"
    /\ wreq = "idle"
    /\ wresp = NoAnswer
    /\ welcomeSteps = <<>>
    /\ allSteps = <<>>
    /\ batches = <<>>
    /\ groupStart = 0
    /\ req = [b \in BatchIds |-> "idle"]
    /\ prom = [b \in BatchIds |-> "none"]
    /\ res = [b \in BatchIds |-> <<>>]
    /\ tourSteps = <<>>
    /\ maxSteps = 0
    /\ validatedSteps = <<>>
    /\ keptIdx = <<>>
    /\ cancelRequested = FALSE
    /\ cmdConfigured \in BOOLEAN
    /\ parser = "null"
    /\ analysisStarted = FALSE
    /\ tourSaved = FALSE
    /\ tourInStore = FALSE
    /\ tourStarted = FALSE
    /\ AnalyzerIdle
    /\ UnitIdle
    /\ errorsShown = 0
    /\ successShown = 0

\* the catch of generateTour shows the error and throws it again; the catch
\* of the command shows what it catches
generateTourCatch(shown) == shown + 1

commandCatch(shown) == shown + 1

\* generateTour throws the cancellation error to the command
cancelledMessages ==
    /\ errorsShown' = commandCatch(generateTourCatch(errorsShown))
    /\ UNCHANGED successShown

\* LLMService.isConfigured: the loaded apiKey is not blank
isConfiguredAlways(hasKey) == TRUE

isConfigured(hasKey) == hasKey

\* if (!llmService.isConfigured()) showWarningMessage(...)
CheckConfigured ==
    /\ pc = "command"
    /\ pc' = IF isConfigured(cmdConfigured) THEN "inputs" ELSE "askConfigure"
    /\ UNCHANGED <<files, configured, generationVars, hostVars>>
    /\ UNCHANGED unitVars
    /\ UNCHANGED messageVars

\* the answer to the warning: "Configure Now", "Cancel" or dismissed
AskConfigure ==
    /\ pc = "askConfigure"
    /\ \E result \in {"Configure Now", "Cancel", "undefined"} :
         pc' = IF result = "Configure Now" THEN "configuring" ELSE "exit"
    /\ UNCHANGED <<files, configured, generationVars, hostVars>>
    /\ UNCHANGED unitVars
    /\ UNCHANGED messageVars

\* the configureLLM command has returned; reloadConfig reads the settings
ConfigureReturns ==
    /\ pc = "configuring"
    /\ cmdConfigured' \in BOOLEAN
    /\ pc' = IF isConfigured(cmdConfigured') THEN "inputs" ELSE "exit"
    /\ UNCHANGED <<files, configured, generationVars, cancelRequested,
                   parser, analysisStarted, tourSaved, tourInStore,
                   tourStarted,
                   analyzerVars>>
    /\ UNCHANGED unitVars
    /\ UNCHANGED messageVars

\* workspace folder and title; then generateTour is called and runs up to
\* the await of analyzer.initialize()
Inputs ==
    /\ pc = "inputs"
    /\ \E given \in {"noWorkspace", "noTitle", "ok"} :
         IF given = "ok"
         THEN pc' = "init" /\ analysisStarted' = TRUE
         ELSE pc' = "exit" /\ UNCHANGED analysisStarted
    /\ UNCHANGED <<files, configured, generationVars, cancelRequested,
                   cmdConfigured, parser, tourSaved, tourInStore,
                   tourStarted,
                   analyzerVars>>
    /\ UNCHANGED unitVars
    /\ UNCHANGED messageVars

\* the user cancels the progress notification
Cancel ==
    /\ pc \in InProgress
    /\ ~cancelRequested
    /\ cancelRequested' = TRUE
    /\ UNCHANGED <<files, configured, pc, generationVars, cmdConfigured,
                   parser, analysisStarted, tourSaved, tourInStore,
                   tourStarted,
                   analyzerVars>>
    /\ UNCHANGED unitVars
    /\ UNCHANGED messageVars

\* analyzer.initialize() has settled (it never rejects); first checkpoint
InitializeAnalyzer ==
    /\ pc = "init"
    /\ parser' \in {"null", "ready"}
    /\ pc' = IF checkpoint(cancelRequested) THEN "cancelled" ELSE "analyze"
    /\ IF checkpoint(cancelRequested)
       THEN cancelledMessages ELSE UNCHANGED messageVars
    /\ UNCHANGED <<files, configured, generationVars, cancelRequested,
                   cmdConfigured, analysisStarted, tourSaved, tourInStore,
                   tourStarted,
                   analyzerVars>>
    /\ UNCHANGED unitVars

\* analyzeProject has settled; second checkpoint, buildProjectContext, third
\* checkpoint, new BatchTourGenerator() and generateTourInBatches up to the
\* first await of generateWelcomePage
AnalyzeProject ==
    /\ pc = "analyze"
    /\ \E n \in RunFileCounts : \E failing \in ReadFailures(n) :
         files' = analyzedFiles(SubSeq(ProjectFiles, 1, n), failing)
    /\ IF checkpoint(cancelRequested)
       THEN pc' = "cancelled" /\ UNCHANGED configured /\ cancelledMessages
       ELSE /\ pc' = "welcome" /\ configured' \in BOOLEAN
            /\ UNCHANGED messageVars
    /\ UNCHANGED <<generationVars, hostVars>>
    /\ UNCHANGED unitVars

\* the checkpoint after the batch generation throws
CancelledAfterGeneration ==
    /\ pc = "returned"
    /\ checkpoint(cancelRequested)
    /\ pc' = "cancelled"
    /\ UNCHANGED <<files, configured, generationVars, hostVars>>
    /\ UNCHANGED unitVars
    /\ cancelledMessages

\* generateTour has returned the tour: saveTour, store.tours.push and the
\* success notification; or saveTour throws to the catch of the command
SaveTour ==
    /\ pc = "done"
    /\ \E written \in BOOLEAN :
         IF written
         THEN /\ tourSaved' = TRUE
              /\ tourInStore' = TRUE
              /\ successShown' = successShown + 1
              /\ pc' = "askStart"
              /\ UNCHANGED errorsShown
         ELSE /\ pc' = "exit"
              /\ errorsShown' = commandCatch(errorsShown)
              /\ UNCHANGED <<tourSaved, tourInStore, successShown>>
    /\ UNCHANGED <<files, configured, generationVars, cancelRequested,
                   cmdConfigured, parser, analysisStarted, tourStarted,
                   analyzerVars>>
    /\ UNCHANGED unitVars

\* the answer to "generated successfully": "Start Tour" or not
AskStart ==
    /\ pc = "askStart"
    /\ \E startNow \in {"Start Tour", "Close"} :
         tourStarted' = (startNow = "Start Tour")
    /\ pc' = "exit"
    /\ UNCHANGED <<files, configured, generationVars, cancelRequested,
                   cmdConfigured, parser, analysisStarted, tourSaved,
                   tourInStore,
                   analyzerVars>>
    /\ UNCHANGED unitVars
    /\ UNCHANGED messageVars

NextRun ==
    \/ CheckConfigured
    \/ AskConfigure
    \/ ConfigureReturns
    \/ Inputs
    \/ Cancel
    \/ InitializeAnalyzer
    \/ AnalyzeProject
    \/ Next
    \/ CancelledAfterGeneration
    \/ SaveTour
    \/ AskStart

SpecRun == InitRun /\ [][NextRun]_vars

\* the host settles what generateTour awaits (initialize, analyzeProject,
\* the documents read by generateWelcomePage) and the event loop runs the
\* continuation that follows (CheckConfigured, InitializeAnalyzer,
\* AnalyzeProject, WelcomeCall, Validate or CancelledAfterGeneration): the
\* run does not stay at one of these positions. The positions of a run are
\* passed in one order, so this is weak fairness of these actions. The
\* answers of the user and of the generation service are not assumed.
HostSettles ==
    []<>(pc \notin {"command", "init", "analyze", "welcome", "returned"})

FairRun ==
    /\ SpecRun
    /\ WF_vars(Continuation)
    /\ WF_vars(Timers)
    /\ HostSettles

\* as HostSettles, and the welcome request settles (WelcomeSettle)
WelcomeRequestSettles ==
    []<>(pc \notin {"command", "init", "analyze", "welcome", "welcomeWait",
                    "returned"})

FairRunSettled ==
    /\ SpecRun
    /\ WF_vars(Continuation)
    /\ WF_vars(Timers)
    /\ WelcomeRequestSettles

(***************************************************************************)
(* The validator alone: validateAndRefineSteps on bounded inputs.          *)
(***************************************************************************)
StepUniverse ==
    {GeneratedTourStep(title, file, LineNum(3), <<1, 1>>) :
        title \in {TitleStr("Welcome to project"),
                   TitleStr("Project Overview"), NumberTitle},
        file \in {Path("src", "a.ts"), Path("app", "A.TS"), UnknownFile,
                  UndefinedFile}}
    \cup {GeneratedTourStep(UndefinedTitle, file, LineNum(3), <<1, 1>>) :
        file \in {Path("src", "a.ts"), UnknownFile}}
    \cup {GeneratedTourStep(title, file, line, <<1, 1>>) :
        title \in {TitleStr("Welcome to project"),
                   TitleStr("Project Overview")},
        file \in {Path("src", "a.ts"), UnknownFile},
        line \in {LineNum(0), LineNum(-1)}}
    \cup {NullStep, PrimitiveStep,
          GeneratedTourStep(TitleStr("Project Overview"), Path("src", "a.ts"),
                            UndefinedLine, <<1, 1>>),
          GeneratedTourStep(TitleStr("Welcome to project"), EmptyFile,
                            LineNum(1), <<1, 1>>)}

InputLists == UNION {[1..n -> StepUniverse] : n \in 0..MaxInputSteps}

\* a list longer than the default limit: its first step on the given file,
\* the others on a file of every structure that is not empty
LongList(first) ==
    [i \in 1..(DEFAULT_MAX_STEPS + 1) |->
        GeneratedTourStep(TitleStr("Step"),
                          IF i = 1 THEN first ELSE Path("src", "a.ts"),
                          LineNum(3), <<1, i>>)]

LongLists == {LongList(first) : first \in {Path("src", "a.ts"), UnknownFile}}

StructurePaths == {Path("src", "a.ts"), Path("lib", "A.ts"), Path("src", "b.ts")}

Structures ==
    {fs \in UNION {[1..n -> {FileAnalysis(p, 1) : p \in StructurePaths}] :
                      n \in 0..MaxStructFiles} :
        \A j, k \in DOMAIN fs : j # k => fs[j] # fs[k]}

InitValidate ==
    /\ files \in Structures
    /\ tourSteps \in InputLists \cup LongLists
    /\ maxSteps \in 0..MaxInputSteps
    /\ pc = "returned"
    /\ hasReadme = FALSE
    /\ configured = TRUE
    /\ wreq = "idle"
    /\ wresp = NoAnswer
    /\ welcomeSteps = <<>>
    /\ allSteps = <<>>
    /\ batches = <<>>
    /\ groupStart = 0
    /\ req = [b \in BatchIds |-> "idle"]
    /\ prom = [b \in BatchIds |-> "none"]
    /\ res = [b \in BatchIds |-> <<>>]
    /\ validatedSteps = <<>>
    /\ keptIdx = <<>>
    /\ cancelRequested = FALSE
    /\ cmdConfigured = TRUE
    /\ parser = "ready"
    /\ analysisStarted = TRUE
    /\ tourSaved = FALSE
    /\ tourInStore = FALSE
    /\ tourStarted = FALSE
    /\ AnalyzerIdle
    /\ UnitIdle
    /\ errorsShown = 0
    /\ successShown = 0

NextValidate == Validate

SpecValidate == InitValidate /\ [][NextValidate]_vars

(***************************************************************************)
(* The analyzer alone: initialize and analyzeFile on bounded files, and    *)
(* extractElements on every bounded syntax tree.                           *)
(***************************************************************************)
\* the variables of the generation and of the command, at rest
GenerationIdle ==
    /\ files = <<>>
    /\ hasReadme = FALSE
    /\ configured = TRUE
    /\ wreq = "idle"
    /\ wresp = NoAnswer
    /\ welcomeSteps = <<>>
    /\ allSteps = <<>>
    /\ batches = <<>>
    /\ groupStart = 0
    /\ req = [b \in BatchIds |-> "idle"]
    /\ prom = [b \in BatchIds |-> "none"]
    /\ res = [b \in BatchIds |-> <<>>]
    /\ tourSteps = <<>>
    /\ maxSteps = 0
    /\ validatedSteps = <<>>
    /\ keptIdx = <<>>
    /\ cancelRequested = FALSE
    /\ cmdConfigured = TRUE
    /\ analysisStarted = TRUE
    /\ tourSaved = FALSE
    /\ tourInStore = FALSE
    /\ tourStarted = FALSE
    /\ errorsShown = 0
    /\ successShown = 0

RECURSIVE TreesOf(_)
TreesOf(n) ==
    IF n = 0 THEN {<<SyntaxNode("program", 0)>>}
    ELSE {Append(x[1], SyntaxNode(x[2], x[3])) :
            x \in {y \in TreesOf(n - 1) \X NodeTypes \X (1..n) :
                     /\ isAncestorOrSelf(y[1], y[3], n)
                     /\ mayContain(y[1][y[3]].type, y[2])}}

Trees == UNION {TreesOf(n) : n \in 0..MaxNodes}

\* class A { m() {} }
ClassTree == <<SyntaxNode("program", 0), SyntaxNode("class_declaration", 1),
               SyntaxNode("class_body", 2),
               SyntaxNode("method_definition", 3)>>

ClassLines == <<SourceLine("class", 0), SourceLine("method", 1),
                SourceLine("other", 0), SourceLine("method", 0)>>

Sources ==
    {Source(languageId, tree, lines, raises) :
        languageId \in {"typescript", "python", "go"},
        tree \in {<<SyntaxNode("program", 0)>>, ClassTree},
        lines \in {<<>>, ClassLines},
        raises \in {"none", "parse", "extract"}}

InitAnalyze ==
    /\ GenerationIdle
    /\ pc = "analyzer"
    /\ parser = "null"
    /\ initialized = FALSE
    /\ languages = {}
    /\ source \in Sources
    /\ analysis = NullAnalysis
    /\ workspace = <<>>
    /\ maxFiles = 0
    /\ searchLimit = UndefinedLimit
    /\ filesToAnalyze = <<>>
    /\ UnitIdle

\* initialize(): a second call returns at once
initialize ==
    /\ pc = "analyzer"
    /\ ~initialized
    /\ \E left \in initializeOutcomes :
         /\ parser' = left.parser
         /\ languages' = left.languages
    /\ initialized' = TRUE
    /\ UNCHANGED <<files, configured, pc, generationVars, cancelRequested,
                   cmdConfigured, analysisStarted, tourSaved, tourInStore,
                   tourStarted, source, analysis, workspace, maxFiles,
                   searchLimit, filesToAnalyze>>
    /\ UNCHANGED unitVars
    /\ UNCHANGED messageVars

\* analyzeFile(filePath, content, languageId), with the initialize() it
\* awaits when the analyzer is not initialized
AnalyzeFile ==
    /\ pc = "analyzer"
    /\ \E left \in IF initialized
                   THEN {[parser |-> parser, languages |-> languages]}
                   ELSE initializeOutcomes :
         /\ parser' = left.parser
         /\ languages' = left.languages
         /\ analysis' = analyzeFile(source, left.parser, left.languages)
    /\ initialized' = TRUE
    /\ pc' = "analyzed"
    /\ UNCHANGED <<files, configured, generationVars, cancelRequested,
                   cmdConfigured, analysisStarted, tourSaved, tourInStore,
                   tourStarted, source, workspace, maxFiles, searchLimit,
                   filesToAnalyze>>
    /\ UNCHANGED unitVars
    /\ UNCHANGED messageVars

\* the caller goes on to its next file
NextSource ==
    /\ pc = "analyzed"
    /\ analysis.js = "object"
    /\ source' \in Sources
    /\ analysis' = NullAnalysis
    /\ pc' = "analyzer"
    /\ UNCHANGED <<files, configured, generationVars, cancelRequested,
                   cmdConfigured, analysisStarted, tourSaved, tourInStore,
                   tourStarted, parser, initialized, languages, workspace,
                   maxFiles, searchLimit, filesToAnalyze>>
    /\ UNCHANGED unitVars
    /\ UNCHANGED messageVars

NextAnalyze == initialize \/ AnalyzeFile \/ NextSource

SpecAnalyze == InitAnalyze /\ [][NextAnalyze]_vars

\* extractElements on every tree, by an initialized analyzer
InitExtract ==
    /\ GenerationIdle
    /\ pc = "analyzer"
    /\ parser = "ready"
    /\ initialized = TRUE
    /\ languages = UNION Grammars
    /\ source \in {Source("typescript", tree, <<>>, "none") : tree \in Trees}
    /\ analysis = NullAnalysis
    /\ workspace = <<>>
    /\ maxFiles = 0
    /\ searchLimit = UndefinedLimit
    /\ filesToAnalyze = <<>>
    /\ UnitIdle

NextExtract == AnalyzeFile

SpecExtract == InitExtract /\ [][NextExtract]_vars

(***************************************************************************)
(* The discovery alone: analyzeProject on bounded workspaces.              *)
(***************************************************************************)
\* the i-th file of the workspace that passes the exclude globs of findFiles
CandidateFile(i) ==
    CASE i = 1 -> Path("src", "index.ts")
      [] i = 2 -> Path("Tests", "a.ts")
      [] i = 3 -> Path("src", "a.generated.ts")
      [] i = 4 -> Path("lib", "A.ts")
      [] i = 5 -> Path("config", "a.ts")
      [] i = 6 -> Path("", "a.ts")
      [] i = 7 -> Path("", "a.config.ts")
      [] OTHER -> Path("src", "f" \o ToString(i) \o ".ts")

subsequence(seq, keep) ==
    LET kept == SelectSeq([i \in 1..Len(seq) |-> i], LAMBDA i : i \in keep)
    IN [k \in DOMAIN kept |-> seq[kept[k]]]

Workspaces ==
    {subsequence([i \in 1..MaxCandidates |-> CandidateFile(i)], keep) :
        keep \in SUBSET (1..MaxCandidates)}

\* what findFiles may return: every file, or maxResults of them
findFiles(matching, maxResults) ==
    IF maxResults.t = "undefined" \/ Len(matching) <= maxResults.n
    THEN {matching}
    ELSE {subsequence(matching, keep) :
            keep \in {k \in SUBSET DOMAIN matching :
                        Cardinality(k) = maxResults.n}}

InitDiscover ==
    /\ GenerationIdle
    /\ pc = "discover"
    /\ parser = "ready"
    /\ initialized = TRUE
    /\ languages = UNION Grammars
    /\ source = Source("typescript", <<SyntaxNode("program", 0)>>, <<>>,
                       "none")
    /\ analysis = NullAnalysis
    /\ workspace \in Workspaces
    /\ maxFiles \in 0..MaxLimit
    /\ searchLimit = UndefinedLimit
    /\ filesToAnalyze = <<>>
    /\ UnitIdle

\* analyzeProject: findFiles, second filter, prioritizeFiles, slice, and the
\* loop that leaves out the files whose read or analysis throws
Discover ==
    /\ pc = "discover"
    /\ searchLimit' = searchLimitOf(maxFiles)
    /\ \E foundFiles \in findFiles(workspace, searchLimit') :
         filesToAnalyze' =
             sliceToLimit(prioritizeFiles(cleanedFiles(foundFiles)),
                          maxFiles)
    /\ \E failing \in ReadFailures(Len(filesToAnalyze')) :
         files' = analyzedFiles([k \in DOMAIN filesToAnalyze' |->
                                    FileAnalysis(filesToAnalyze'[k], 1)],
                                failing)
    /\ pc' = "discovered"
    /\ UNCHANGED <<configured, generationVars, cancelRequested,
                   cmdConfigured, analysisStarted, tourSaved, tourInStore,
                   tourStarted, parser, initialized, languages, source,
                   analysis, workspace, maxFiles>>
    /\ UNCHANGED unitVars
    /\ UNCHANGED messageVars

NextDiscover == Discover

SpecDiscover == InitDiscover /\ [][NextDiscover]_vars

(***************************************************************************)
(* The parser alone: parseStepsFromResponse on bounded texts.              *)
(***************************************************************************)
RECURSIVE TextsOf(_)
TextsOf(n) ==
    IF n = 0 THEN {<<>>}
    ELSE {Append(s, token) : s \in TextsOf(n - 1), token \in Tokens}

Responses ==
    {UndefinedResponse}
    \cup {ResponseText(s) : s \in UNION {TextsOf(n) : n \in 0..MaxTextLen}}

InitParse ==
    /\ GenerationIdle
    /\ AnalyzerIdle
    /\ pc = "parse"
    /\ parser = "null"
    /\ responseText \in Responses
    /\ parsedSteps = <<>>
    /\ readmeLines = <<>>
    /\ cleaned = <<>>
    /\ settings = 0
    /\ panel = "closed"
    /\ testResult = "none"
    /\ lastMessage = "none"

ParseSteps ==
    /\ pc = "parse"
    /\ parsedSteps' = parseStepsFromText(responseText)
    /\ pc' = "parsed"
    /\ UNCHANGED <<files, configured, generationVars, hostVars, responseText,
                   readmeVars, panelVars>>
    /\ UNCHANGED messageVars

NextParse == ParseSteps

SpecParse == InitParse /\ [][NextParse]_vars

(***************************************************************************)
(* The cleaner alone: cleanReadmeContent on bounded READMEs.               *)
(***************************************************************************)
RECURSIVE ReadmesOf(_)
ReadmesOf(n) ==
    IF n = 0 THEN {<<>>}
    ELSE {Append(r, ReadmeLine(kind)) : r \in ReadmesOf(n - 1),
                                        kind \in LineKinds}

Readmes == UNION {ReadmesOf(n) : n \in 0..MaxReadmeLines}

InitReadme ==
    /\ GenerationIdle
    /\ AnalyzerIdle
    /\ pc = "clean"
    /\ parser = "null"
    /\ responseText = UndefinedResponse
    /\ parsedSteps = <<>>
    /\ readmeLines \in Readmes
    /\ cleaned = <<>>
    /\ settings = 0
    /\ panel = "closed"
    /\ testResult = "none"
    /\ lastMessage = "none"

CleanReadme ==
    /\ pc = "clean"
    /\ cleaned' = cleanReadmeContent(readmeLines)
    /\ pc' = "cleaned"
    /\ UNCHANGED <<files, configured, generationVars, hostVars, messageVars,
                   parseVars, readmeLines, panelVars>>

NextReadme == CleanReadme

SpecReadme == InitReadme /\ [][NextReadme]_vars

(***************************************************************************)
(* The regex fallback alone: analyzeFile without a parser, on files of     *)
(* bounded numbers of lines.                                               *)
(***************************************************************************)
RECURSIVE LinesOf(_)
LinesOf(n) ==
    IF n = 0 THEN {<<>>}
    ELSE {Append(ls, SourceLine(kind, indent)) :
            ls \in LinesOf(n - 1), kind \in {"class", "method", "other"},
            indent \in 0..1}

InitRegex ==
    /\ GenerationIdle
    /\ pc = "analyzer"
    /\ parser = "null"
    /\ initialized = TRUE
    /\ languages = {}
    /\ source \in {Source(languageId, <<SyntaxNode("program", 0)>>, lines,
                          "none") :
                     languageId \in {"typescript", "python"},
                     lines \in UNION {LinesOf(n) : n \in 0..MaxRegexLines}}
    /\ analysis = NullAnalysis
    /\ workspace = <<>>
    /\ maxFiles = 0
    /\ searchLimit = UndefinedLimit
    /\ filesToAnalyze = <<>>
    /\ UnitIdle

NextRegex == AnalyzeFile

SpecRegex == InitRegex /\ [][NextRegex]_vars

(***************************************************************************)
(* The configureLLM command and its settings panel.                        *)
(* settings is the persisted (global) configuration; a message of the      *)
(* webview carries the four values of the form.                            *)
(***************************************************************************)
SettingNames == <<"provider", "apiKey", "apiUrl", "model">>

Settings == [{SettingNames[k] : k \in 1..4} -> 0..MaxSettingValue]

\* the first n of the four config.update calls, in the order of the code
updateConfig(current, message, n) ==
    [name \in DOMAIN current |->
        IF \E k \in 1..n : SettingNames[k] = name
        THEN message[name] ELSE current[name]]

InitSettings ==
    /\ GenerationIdle
    /\ AnalyzerIdle
    /\ pc = "settings"
    /\ parser = "null"
    /\ responseText = UndefinedResponse
    /\ parsedSteps = <<>>
    /\ readmeLines = <<>>
    /\ cleaned = <<>>
    /\ settings \in Settings
    /\ panel = "closed"
    /\ testResult = "none"
    /\ lastMessage = "none"

settingsFrame ==
    UNCHANGED <<files, configured, pc, generationVars, hostVars, messageVars,
                parseVars, readmeVars>>

\* the command: a new panel showing the current settings
configureLLM ==
    /\ panel = "closed"
    /\ panel' = "open"
    /\ testResult' = "none"
    /\ UNCHANGED <<settings, lastMessage>>
    /\ settingsFrame

\* case "save": the four updates (the n-th may throw), then dispose
SaveMessage(message) ==
    /\ panel = "open"
    /\ \E n \in 0..4 :
         /\ settings' = updateConfig(settings, message, n)
         /\ panel' = IF n = 4 THEN "closed" ELSE "open"
    /\ lastMessage' = "save"
    /\ UNCHANGED testResult
    /\ settingsFrame

\* case "test": the four updates, the test call, and the posted result
TestMessage(message) ==
    /\ panel = "open"
    /\ \E n \in 0..4 :
         /\ settings' = updateConfig(settings, message, n)
         /\ testResult' \in IF n = 4 THEN {"success", "failure"}
                            ELSE {"failure"}
    /\ lastMessage' = "test"
    /\ UNCHANGED panel
    /\ settingsFrame

\* case "cancel"
CancelMessage ==
    /\ panel = "open"
    /\ panel' = "closed"
    /\ lastMessage' = "cancel"
    /\ UNCHANGED <<settings, testResult>>
    /\ settingsFrame

SaveHandled == \E message \in Settings : SaveMessage(message)

TestHandled == \E message \in Settings : TestMessage(message)

NextSettings == configureLLM \/ SaveHandled \/ TestHandled \/ CancelMessage

SpecSettings == InitSettings /\ [][NextSettings]_vars

(***************************************************************************)
(* Properties.                                                             *)
(***************************************************************************)
Returned == {"returned", "done", "failed"}
InWelcome == {"welcome", "welcomeWait"}
Failures == {"malformed", "error", "unconfigured", "timeout"}

\* the steps of the returned list that batch b produced
Contribution(b) == SelectSeq(tourSteps, LAMBDA s : s.description[1] = b)

AllResults == [b \in 1..NB |-> res[b]]

\* C1: generateTourInBatches never rejects; a batch that failed (timeout,
\* service error, unconfigured service, malformed answer) contributes no
\* step to the returned list, and every other batch contributes exactly the
\* steps it returned.
C1_FailedBatchIsolated ==
    /\ pc # "rejected"
    /\ \A b \in BatchIds : prom[b] \in Failures => res[b] = <<>>
    /\ pc \in Returned =>
         \A b \in 1..NB :
            /\ prom[b] \in Fulfilled
            /\ Contribution(b) = IF prom[b] \in Failures THEN <<>> ELSE res[b]

C1_Witness ==
    /\ pc = "returned"
    /\ \E b \in 1..NB : prom[b] = "timeout"
    /\ \E b \in 1..NB : prom[b] = "error"
    /\ \E b \in 1..NB : prom[b] = "malformed"
    /\ \E b \in 1..NB : prom[b] = "steps" /\ Contribution(b) # <<>>

\* C2: at every moment at most CONCURRENT_BATCHES batch requests have been
\* issued and have not completed.
InFlight == {b \in BatchIds : req[b] = "inflight"}

C2_InFlightBounded == Cardinality(InFlight) <= CONCURRENT_BATCHES

\* C3: the returned list is the welcome step followed by the results of the
\* batches in submission order, each as its race settled; a batch that timed
\* out contributes nothing, also when its request completes later.
C3_SubmissionOrder ==
    /\ pc \in Returned => tourSteps = welcomeSteps \o Flatten(AllResults)
    /\ \A b \in BatchIds : prom[b] = "timeout" => res[b] = <<>>

C3_Witness ==
    /\ pc = "returned"
    /\ \E b \in 1..NB : prom[b] = "timeout" /\ req[b] = "done"
    /\ \E b, c \in 1..NB : b < c /\ res[b] # <<>> /\ res[c] # <<>>

\* C4: a group in which a request never settles is merged once the timers
\* have fired, with the steps of the batches that succeeded and nothing for
\* the batch whose request is still pending; then the next group is issued
\* (or, after the last group, the list is returned).
GroupAwaited == pc = "await"

\* the group that was awaited has just been merged
GroupMerged ==
    /\ pc = "issue"
    /\ groupStart > 0
    /\ allSteps = welcomeSteps
                  \o Flatten([b \in 1..Min(groupStart, NB) |-> res[b]])
    /\ \A b \in 1..Min(groupStart, NB) :
          req[b] = "inflight" => prom[b] = "timeout" /\ res[b] = <<>>

NextGroupIssued ==
    \/ pc = "await" /\ \A b \in GroupOf(groupStart) : prom[b] # "none"
    \/ pc \in Returned /\ groupStart >= NB

C4_HungBatchGroupCompletes ==
    /\ GroupAwaited ~> GroupMerged
    /\ GroupMerged ~> NextGroupIssued

C4_Witness ==
    /\ pc = "await"
    /\ groupStart = CONCURRENT_BATCHES
    /\ Cardinality({b \in 1..CONCURRENT_BATCHES : req[b] = "inflight"}) = 1
    /\ \A b \in 1..CONCURRENT_BATCHES :
          req[b] = "done" => prom[b] = "steps" /\ res[b] # <<>>
    /\ Len(allSteps) > 1

\* C5: the batches of a group are issued together; no batch of a later
\* group is issued, and no step is appended to the accumulated list, before
\* every batch of the group has settled.
GroupNo(b) == (b - 1) \div CONCURRENT_BATCHES

BarrierInv ==
    \A b \in BatchIds :
        /\ req[b] # "idle" => prom[b] # "none"
        /\ prom[b] # "none" =>
             \A c \in 1..NB :
                /\ GroupNo(c) < GroupNo(b) => prom[c] \in Fulfilled
                /\ GroupNo(c) = GroupNo(b) => prom[c] # "none"

AppendAfterBarrier ==
    allSteps' # allSteps /\ pc = "await" =>
        \A b \in GroupOf(groupStart) : prom[b] \in Fulfilled

C5_GroupBarrier == []BarrierInv /\ [][AppendAfterBarrier]_vars

C5_Witness ==
    /\ pc = "await"
    /\ groupStart = CONCURRENT_BATCHES
    /\ \E b \in 1..CONCURRENT_BATCHES : prom[b] = "timeout"
    /\ \E b \in 1..CONCURRENT_BATCHES : prom[b] = "steps"
    /\ prom[CONCURRENT_BATCHES + 1] = "pending"

\* C6: whatever the service answers to the welcome request,
\* generateWelcomePage returns exactly one step: the first element of the
\* answered array when it is an object, the fallback step otherwise.
WelcomeStepOf(answer) ==
    IF /\ answer.kind = "array"
       /\ Len(answer.steps) > 0
       /\ answer.steps[1].js = "object"
    THEN /\ welcomeSteps'[1].title = answer.steps[1].title
         /\ welcomeSteps'[1].description = answer.steps[1].description
    ELSE welcomeSteps'[1] = fallbackStep(resolveWelcomeFile(files, hasReadme))

WelcomePageLeft ==
    pc \in InWelcome /\ pc' # pc =>
        /\ pc' \in {"welcomeWait", "issue"}
        /\ pc' = "issue" => Len(welcomeSteps') = 1 /\ WelcomeStepOf(wresp)

C6_WelcomeExactlyOne == [][WelcomePageLeft]_vars

C6_Witness ==
    /\ pc = "issue"
    /\ wreq = "done"
    /\ Len(welcomeSteps) = 1
    /\ welcomeSteps[1].description = <<0, 1>>

\* C7: no batch request is issued before the welcome request has settled,
\* and index 0 of the accumulated and of the returned list is the welcome
\* step, for every number of batches and every outcome of the batches.
C7_WelcomeFirst ==
    /\ \A b \in BatchIds :
          req[b] # "idle" \/ prom[b] # "none" =>
             pc \notin InWelcome /\ wreq # "inflight"
    /\ pc \notin InWelcome =>
          /\ Len(welcomeSteps) = 1
          /\ Len(allSteps) >= 1
          /\ allSteps[1] = welcomeSteps[1]
    /\ pc \in Returned => tourSteps[1] = welcomeSteps[1]

C7_Witness ==
    /\ pc = "returned"
    /\ NB = 0
    /\ tourSteps = welcomeSteps

\* C8: for every run that completes, the first step of the validated tour
\* is the step produced by generateWelcomePage.
C8_WelcomeInFinalTour ==
    pc = "done" =>
        /\ Len(validatedSteps) >= 1
        /\ keptIdx[1] = 0
        /\ validatedSteps[1].title = welcomeSteps[1].title
        /\ validatedSteps[1].description = welcomeSteps[1].description

\* C9: the validator never throws, and the steps it emits are exactly the
\* processed input steps that are exempt or whose file is in the structure or
\* resolvable by basename, in their input order and with their content.
Processed == 0..(Min(Len(tourSteps), effectiveMaxSteps(maxSteps)) - 1)

Exempt(i) ==
    /\ i = 0
    /\ tourSteps[1].title.t = "string"
    /\ includesWelcome(tourSteps[1].title.s)

Resolvable(step) ==
    /\ step.js = "object"
    /\ step.file.t = "string"
    /\ \E k \in DOMAIN files :
          toLowerCase(files[k].file.base) = toLowerCase(step.file.base)

Emitted(i) == \E k \in DOMAIN keptIdx : keptIdx[k] = i

C9_DropsExactlyUnresolvable ==
    /\ pc # "failed"
    /\ pc = "done" =>
         /\ \A i \in Processed :
               Emitted(i) <=> (Exempt(i) \/ Resolvable(tourSteps[i + 1]))
         /\ \A k \in DOMAIN keptIdx :
               /\ keptIdx[k] \in Processed
               /\ validatedSteps[k].description
                    = tourSteps[keptIdx[k] + 1].description
               /\ \A l \in DOMAIN keptIdx : k < l => keptIdx[k] < keptIdx[l]

\* C10: every emitted step other than the exempt step at index 0 carries the
\* file of some FileAnalysis of the structure; when the file of the input
\* step is not in the structure, the emitted file is the first file of the
\* structure, in structure order, with the same lower-cased basename.
FirstWithBasename(out, in) ==
    \E k \in DOMAIN files :
        /\ files[k].file = out
        /\ toLowerCase(files[k].file.base) = toLowerCase(in.base)
        /\ \A j \in 1..(k - 1) :
              toLowerCase(files[j].file.base) # toLowerCase(in.base)

C10_EmittedFileInStructure ==
    pc = "done" =>
        \A k \in DOMAIN validatedSteps :
            ~Exempt(keptIdx[k]) =>
                /\ \E f \in DOMAIN files :
                      files[f].file = validatedSteps[k].file
                /\ (\A f \in DOMAIN files :
                        files[f].file # tourSteps[keptIdx[k] + 1].file)
                   => FirstWithBasename(validatedSteps[k].file,
                                        tourSteps[keptIdx[k] + 1].file)

C10_Witness ==
    /\ pc = "done"
    /\ Len(files) = 2
    /\ toLowerCase(files[1].file.base) = toLowerCase(files[2].file.base)
    /\ \E k \in DOMAIN validatedSteps :
          /\ ~Exempt(keptIdx[k])
          /\ validatedSteps[k].file # tourSteps[keptIdx[k] + 1].file
          /\ validatedSteps[k].file = files[1].file

\* C11: only the step at input index 0 whose title contains the welcome
\* marker is exempted from the file-existence check: an emitted step whose
\* file is not in the structure is that step, at output index 0; a step
\* with the marker at index 0 is emitted first with its file unchanged.
InStructure(file) == \E f \in DOMAIN files : files[f].file = file

HasMarker(step) ==
    /\ step.js = "object"
    /\ step.title.t = "string"
    /\ includesWelcome(step.title.s)

C11_OnlyIndexZeroExempt ==
    pc = "done" =>
        /\ \A k \in DOMAIN validatedSteps :
              ~InStructure(validatedSteps[k].file) =>
                  /\ k = 1
                  /\ keptIdx[k] = 0
                  /\ HasMarker(tourSteps[1])
        /\ (Len(tourSteps) > 0 /\ HasMarker(tourSteps[1])) =>
              /\ Len(validatedSteps) >= 1
              /\ keptIdx[1] = 0
              /\ validatedSteps[1].file = tourSteps[1].file

C11_Witness ==
    /\ pc = "done"
    /\ Len(tourSteps) = 2
    /\ HasMarker(tourSteps[1]) /\ HasMarker(tourSteps[2])
    /\ tourSteps[1].file = UnknownFile /\ tourSteps[2].file = UnknownFile
    /\ maxSteps = 0
    /\ keptIdx = <<0>>
    /\ validatedSteps[1].file = UnknownFile

\* C12: every emitted step that has a line has a line of at least 1.
C12_LineAtLeastOne ==
    pc = "done" =>
        \A k \in DOMAIN validatedSteps :
            validatedSteps[k].line.t = "number" =>
                validatedSteps[k].line.n >= 1

\* C13: only the first maxSteps input steps are considered (20 when
\* maxSteps is unset or 0): the output has at most that many steps and no
\* input step at that position or later is emitted.
C13_FirstMaxStepsOnly ==
    pc = "done" =>
        LET limit == IF maxSteps = 0 THEN 20 ELSE maxSteps
        IN /\ Len(validatedSteps) <= limit
           /\ \A k \in DOMAIN keptIdx : keptIdx[k] < limit

C13_Witness ==
    /\ pc = "done"
    /\ maxSteps = 0
    /\ Len(tourSteps) = 21
    /\ InStructure(tourSteps[21].file)
    /\ ~InStructure(tourSteps[1].file)
    /\ Len(validatedSteps) = 19
    /\ keptIdx[1] = 1

\* C14: when cancellation has been requested by the time a checkpoint is
\* reached (after initialization, after analysis and context building,
\* after batch generation), generateTour fails with the cancellation error;
\* the command then saves no tour, adds none to the store and starts none.
AtCheckpoint == {"init", "analyze", "returned"}

CheckpointStops ==
    /\ (cancelRequested /\ pc \in AtCheckpoint /\ pc' # pc) =>
          pc' = "cancelled"
    /\ pc = "cancelled" => pc' = "cancelled"

CancelledNothingPersisted ==
    pc = "cancelled" =>
        /\ validatedSteps = <<>>
        /\ ~tourSaved /\ ~tourInStore /\ ~tourStarted

C14_CancelledNoTour ==
    []CancelledNothingPersisted /\ [][CheckpointStops]_vars

C14_Witness ==
    /\ pc = "cancelled"
    /\ Len(tourSteps) > 1
    /\ \E b \in BatchIds : prom[b] = "steps"

\* C15: generateTour fails only when cancellation was requested; when it is
\* never requested, a run that has started returns a tour, whatever files
\* failed to be read, whether the grammars were initialized, and whatever
\* the welcome request, the batches and the validation of the steps did.
OnlyCancellationAborts ==
    /\ pc \notin {"failed", "rejected"}
    /\ pc = "cancelled" => cancelRequested

TourReturned == pc = "done"

BeforeGeneration == {"command", "askConfigure", "configuring", "exit"}

NoRequestSent == wreq = "idle" /\ \A b \in BatchIds : req[b] = "idle"

C16_UnconfiguredAborts ==
    /\ ~cmdConfigured =>
          /\ pc \in BeforeGeneration
          /\ ~analysisStarted
          /\ NoRequestSent
          /\ ~tourSaved /\ ~tourInStore /\ ~tourStarted
    /\ ~configured =>
          /\ NoRequestSent
          /\ \A b \in BatchIds :
                prom[b] \in {"none", "pending", "unconfigured"}
          /\ welcomeSteps \in
                {<<>>, <<fallbackStep(resolveWelcomeFile(files, hasReadme))>>}

C16_Witness ==
    /\ pc = "exit"
    /\ ~cmdConfigured
    /\ ~analysisStarted

\* C17: the welcome synthesizer always terminates: once generateWelcomePage
\* is called it eventually returns its single step, whatever the generation
\* service does, so that batch processing eventually starts.
WelcomePageReturned == Len(welcomeSteps) = 1

C17_WelcomeTerminates == (pc = "welcome") ~> WelcomePageReturned

\* C18: analyzeFile never throws and never returns null; when the
\* initialization failed, when no grammar is registered for the language of
\* the file, or when the grammar path raises, it returns what the regex
\* fallback produces for the same file; it returns the grammar result only
\* when the parse and the extraction succeed.
Registered == source.languageId \in languages

GrammarPathSucceeds ==
    parser = "ready" /\ Registered /\ source.raises = "none"

RegexResult ==
    [js |-> "object", file |-> source.file, language |-> source.languageId,
     elements |-> IF source.languageId = "typescript"
                  THEN regexLines(source.lines, 1, <<>>, 0, 0) ELSE <<>>]

C18_AnalyzeFileFallsBack ==
    pc = "analyzed" =>
        /\ analysis.js = "object"
        /\ ~GrammarPathSucceeds => analysis = RegexResult
        /\ analysis # RegexResult =>
              /\ GrammarPathSucceeds
              /\ analysis.elements = extractElements(source.tree)

C18_Witness ==
    /\ pc = "analyzed"
    /\ parser = "ready"
    /\ Registered
    /\ source.raises = "parse"
    /\ analysis = RegexResult
    /\ analysis.elements # <<>>
    /\ analysis.elements # extractElements(source.tree)

\* C19: every element extractElements emits, at top level or as a child,
\* has line <= endLine; no method node is emitted both as a child of a class
\* and at top level; a method node below a class declaration is emitted as
\* a child of the element of its nearest enclosing class and nowhere else.
IsMethod(tree, n) ==
    \/ tree[n].type \in {"method_definition", "function_definition"}
    \/ /\ tree[n].type = "function_declaration"
       /\ tree[tree[n].parent].type = "class_body"

EnclosingClasses(tree, n) ==
    {a \in 1..(n - 1) : /\ tree[a].type = "class_declaration"
                        /\ isAncestorOrSelf(tree, a, n)}

TopLevelNamed(elements, n) ==
    {p \in DOMAIN elements : elements[p].name = n}

ParentsOf(elements, n) ==
    {p \in DOMAIN elements :
        \E c \in DOMAIN elements[p].children :
            elements[p].children[c].name = n}

Max(S) == CHOOSE m \in S : \A k \in S : k <= m

C19_MethodsAttachOnce ==
    pc = "analyzed" /\ GrammarPathSucceeds =>
        LET tree == source.tree
            elements == analysis.elements
        IN /\ \A p \in DOMAIN elements :
                /\ elements[p].line <= elements[p].endLine
                /\ \A c \in DOMAIN elements[p].children :
                      elements[p].children[c].line
                          <= elements[p].children[c].endLine
           /\ \A n \in 2..Len(tree) :
                IsMethod(tree, n) =>
                    /\ ~(/\ TopLevelNamed(elements, n) # {}
                         /\ ParentsOf(elements, n) # {})
                    /\ EnclosingClasses(tree, n) # {} =>
                          /\ TopLevelNamed(elements, n) = {}
                          /\ Cardinality(ParentsOf(elements, n)) = 1
                          /\ \A p \in ParentsOf(elements, n) :
                                /\ elements[p].type = "class"
                                /\ elements[p].name =
                                       Max(EnclosingClasses(tree, n))
                                /\ Cardinality({c \in DOMAIN
                                       elements[p].children :
                                         elements[p].children[c].name = n})
                                     = 1

C19_Witness ==
    /\ pc = "analyzed"
    /\ source.tree = ClassTree
    /\ Len(analysis.elements) = 1
    /\ analysis.elements[1].type = "class"
    /\ analysis.elements[1].line < analysis.elements[1].endLine
    /\ Len(analysis.elements[1].children) = 1
    /\ analysis.elements[1].children[1].type = "method"

\* C20: with limit 0 analyzeProject asks findFiles for every file and
\* analyzes every file of the workspace that passes the second filter; with
\* a limit N > 0 it asks for at most 3N files and analyzes at most N; no
\* file it analyzes matches a pattern of the second filter.
NoiseCandidates ==
    {Path("Tests", "a.ts"), Path("src", "a.generated.ts"),
     Path("config", "a.ts"), Path("", "a.config.ts")}

Range(seq) == {seq[k] : k \in DOMAIN seq}

C20_DiscoveryLimits ==
    pc = "discovered" =>
        /\ maxFiles = 0 =>
              /\ searchLimit = UndefinedLimit
              /\ Range(filesToAnalyze) = Range(workspace) \ NoiseCandidates
              /\ Len(filesToAnalyze) = Cardinality(Range(filesToAnalyze))
        /\ maxFiles > 0 =>
              /\ searchLimit.t = "number"
              /\ searchLimit.n <= 3 * maxFiles
              /\ Len(filesToAnalyze) <= maxFiles
              /\ Len(files) <= maxFiles
        /\ Range(filesToAnalyze) \cap NoiseCandidates = {}
        /\ \A k \in DOMAIN files : files[k].file \in Range(filesToAnalyze)

C20_Witness ==
    /\ pc = "discovered"
    /\ maxFiles = 1
    /\ Len(workspace) > 3 * maxFiles
    /\ Cardinality(Range(workspace) \ NoiseCandidates) > maxFiles
    /\ Len(filesToAnalyze) = maxFiles
    /\ Len(files) = maxFiles

\* C21: parseStepsFromResponse returns the parsed array when the response
\* holds a JSON array, also when prose with square brackets follows it: when
\* the text from the first "[" to the bracket that closes it is a JSON
\* array, the result is that array.
FirstOpen == MinOf(Positions(responseText.s, "["))

FirstClose ==
    MinOf({j \in DOMAIN responseText.s :
              j > FirstOpen /\ depthAfter(responseText.s, j)
                                 = depthAfter(responseText.s, FirstOpen - 1)})

HasFirstArray ==
    /\ responseText.t = "string"
    /\ Positions(responseText.s, "[") # {}
    /\ \E j \in DOMAIN responseText.s :
          j > FirstOpen /\ depthAfter(responseText.s, j)
                             = depthAfter(responseText.s, FirstOpen - 1)
    /\ isJsonArray(SubSeq(responseText.s, FirstOpen, FirstClose))

C21_ParsesFirstArray ==
    pc = "parsed" /\ HasFirstArray =>
        parsedSteps = jsonItems(SubSeq(responseText.s, FirstOpen, FirstClose))

\* C22: a run of the generate command that reaches generation reports one
\* outcome: at most one notification, one success or one failure, and
\* exactly one when the run has ended.
RunEnded == analysisStarted /\ pc \in {"exit", "cancelled", "askStart"}

C22_SingleOutcome ==
    /\ errorsShown + successShown <= 1
    /\ RunEnded => errorsShown + successShown = 1

\* C23: in every FileAnalysis analyzeFile returns, by the grammar or by the
\* regex fallback, the line of each child of a class element lies within
\* the lines of the class, line to endLine.
C23_ChildWithinClass ==
    pc = "analyzed" =>
        \A p \in DOMAIN analysis.elements :
            \A c \in DOMAIN analysis.elements[p].children :
                /\ analysis.elements[p].line
                       <= analysis.elements[p].children[c].line
                /\ analysis.elements[p].children[c].line
                       <= analysis.elements[p].endLine

\* C24: extractElements emits one element per declaration: a class or
\* function declaration, wrapped in an export statement or not, yields
\* exactly one element, at top level or as a child.
ElementsNamed(elements, n) ==
    Cardinality(TopLevelNamed(elements, n))
    + Cardinality({pc2 \in {<<p, c>> : p \in DOMAIN elements, c \in 1..MaxNodes} :
                     /\ pc2[2] \in DOMAIN elements[pc2[1]].children
                     /\ elements[pc2[1]].children[pc2[2]].name = n})

C24_OneElementPerDeclaration ==
    pc = "analyzed" /\ GrammarPathSucceeds =>
        \A n \in 2..Len(source.tree) :
            source.tree[n].type \in {"class_declaration",
                                     "function_declaration"} =>
                ElementsNamed(analysis.elements, n) = 1

\* C25: the batches partition the important files: every analyzed file with
\* at least one element and no noise path is in exactly one batch, the
\* other files are in none; every batch has 1 to 4 files and all but the
\* last have 4; across the batches the files are in non-increasing
\* importance, ties in input order; the digest of a batch names the files of
\* that batch only.
BatchesBuilt == pc = "issue"

Important(f) == f.elements > 0 /\ f.file.dir # "test"

Batched == Flatten(batches)

IndexIn(fs, f) == CHOOSE k \in DOMAIN fs : fs[k] = f

C25_BatchesPartition ==
    BatchesBuilt =>
        /\ \A k \in DOMAIN files :
              Cardinality({j \in DOMAIN Batched : Batched[j] = files[k]})
                  = IF Important(files[k]) THEN 1 ELSE 0
        /\ \A j \in DOMAIN Batched : \E k \in DOMAIN files :
              Batched[j] = files[k]
        /\ \A b \in 1..NB :
              /\ Len(batches[b]) \in 1..BATCH_SIZE
              /\ b < NB => Len(batches[b]) = BATCH_SIZE
              /\ \A other \in 1..NB :
                    other # b =>
                        Range(formatBatchStructure(batches[b]))
                            \cap {batches[other][k].file :
                                     k \in DOMAIN batches[other]} = {}
              /\ Range(formatBatchStructure(batches[b]))
                     = {batches[b][k].file : k \in DOMAIN batches[b]}
        /\ \A j \in 1..(Len(Batched) - 1) :
              \/ getFileImportance(Batched[j])
                     > getFileImportance(Batched[j + 1])
              \/ /\ getFileImportance(Batched[j])
                        = getFileImportance(Batched[j + 1])
                 /\ IndexIn(files, Batched[j])
                        < IndexIn(files, Batched[j + 1])

C25_Witness ==
    /\ BatchesBuilt
    /\ NB = 2
    /\ Len(batches[2]) < BATCH_SIZE
    /\ Len(Batched) < Len(files)
    /\ \E j \in 1..(Len(Batched) - 1) :
          /\ getFileImportance(Batched[j]) = getFileImportance(Batched[j + 1])
    /\ \E j \in 1..(Len(Batched) - 1) :
          /\ IndexIn(files, Batched[j]) > IndexIn(files, Batched[j + 1])

\* C26: cleanReadmeContent returns an order-preserving subsequence of the
\* lines of the README within 5000 characters, without badge lines; after a
\* sponsor or thank-you line, the next heading line (level 1 to 3) is kept
\* and so are the ordinary lines after it, up to the next sponsor line.
KeptLines == {cleaned[k].line : k \in DOMAIN cleaned}

RECURSIVE SumChars(_)
SumChars(out) ==
    IF out = <<>> THEN 0 ELSE Head(out).chars + SumChars(Tail(out))

WithinCap == \A i \in DOMAIN readmeLines : readmeLines[i].kind # "long"

C26_ResumesAtHeading ==
    pc = "cleaned" =>
        /\ \A k \in 1..(Len(cleaned) - 1) :
              cleaned[k].line < cleaned[k + 1].line
        /\ \A k \in DOMAIN cleaned :
              /\ cleaned[k].line \in DOMAIN readmeLines
              /\ cleaned[k].chars <= readmeLines[cleaned[k].line].length
              /\ readmeLines[cleaned[k].line].kind # "badge"
        /\ SumChars(cleaned) + Len(cleaned) - 1 <= README_CHARS
        /\ WithinCap =>
              \A s \in DOMAIN readmeLines, h \in DOMAIN readmeLines :
                  /\ readmeLines[s].kind = "sponsor"
                  /\ s < h
                  /\ readmeLines[h].kind \in {"heading", "adHeading"}
                  => /\ h \in KeptLines
                     /\ \A j \in DOMAIN readmeLines :
                           /\ j > h
                           /\ readmeLines[j].kind = "plain"
                           /\ \A m \in h..j : readmeLines[m].kind # "sponsor"
                           => j \in KeptLines

\* C27: the welcome file is README.md when the README was read, otherwise
\* the first analyzed file (README.md when nothing was analyzed); the step
\* generateWelcomePage returns carries it unless the service gave the step
\* a file of its own other than README.md, so that without a README and
\* with an analyzed file such a step does not reference README.md.
WelcomeFile ==
    IF hasReadme THEN README
    ELSE IF files # <<>> THEN files[1].file ELSE README

KeepsOwnFile ==
    /\ pc = "welcomeWait"
    /\ wresp.kind = "array"
    /\ wresp.steps # <<>>
    /\ wresp.steps[1].js = "object"
    /\ wresp.steps[1].file \notin {EmptyFile, README}

WelcomePageReturns == pc \in {"welcome", "welcomeWait"} /\ pc' = "issue"

WelcomeFileCarried ==
    WelcomePageReturns /\ ~KeepsOwnFile =>
        /\ Len(welcomeSteps') = 1
        /\ welcomeSteps'[1].file = WelcomeFile
        /\ ~hasReadme /\ files # <<>> => welcomeSteps'[1].file # README

C27_WelcomeFileResolved == [][WelcomeFileCarried]_vars

\* the service's step on README.md was given the first analyzed file
C27_Witness ==
    /\ pc = "issue"
    /\ ~hasReadme
    /\ files # <<>>
    /\ Len(welcomeSteps) = 1
    /\ welcomeSteps[1].description = <<0, 1>>
    /\ welcomeSteps[1].file = files[1].file

\* C28: the regex fallback emits one class element for each class line; a
\* method line is a child of the current class if and only if a class
\* context is open and the line is indented strictly more than the class
\* line, otherwise it is a top-level function and closes the context; every
\* element has endLine = line, the 1-based number of its line.
LinesOfKind(kind) ==
    {i \in DOMAIN source.lines : source.lines[i].kind = kind}

\* the class line whose context is open when line i is reached (0: none)
OpenClass(i) ==
    LET before == {c \in LinesOfKind("class") : c < i}
        last == IF before = {} THEN 0 ELSE MaxOf(before)
    IN IF last # 0 /\ \A m \in LinesOfKind("method") :
                          last < m /\ m < i =>
                              source.lines[m].indent > source.lines[last].indent
       THEN last ELSE 0

Attached(i) ==
    /\ OpenClass(i) # 0
    /\ source.lines[i].indent > source.lines[OpenClass(i)].indent

TopLevel(type) ==
    {p \in DOMAIN analysis.elements : analysis.elements[p].type = type}

ChildrenAt(i) ==
    {pc2 \in (DOMAIN analysis.elements) \X (1..(MaxRegexLines + 1)) :
        /\ pc2[2] \in DOMAIN analysis.elements[pc2[1]].children
        /\ analysis.elements[pc2[1]].children[pc2[2]].line = i}

C28_RegexClassContext ==
    pc = "analyzed" /\ source.languageId = "typescript" =>
        /\ \A p \in DOMAIN analysis.elements :
              /\ analysis.elements[p].endLine = analysis.elements[p].line
              /\ analysis.elements[p].line \in DOMAIN source.lines
              /\ analysis.elements[p].type \in {"class", "function"}
              /\ \A c \in DOMAIN analysis.elements[p].children :
                    /\ analysis.elements[p].children[c].endLine
                           = analysis.elements[p].children[c].line
                    /\ analysis.elements[p].type = "class"
        /\ \A p, q \in DOMAIN analysis.elements :
              p < q => analysis.elements[p].line < analysis.elements[q].line
        /\ {analysis.elements[p].line : p \in TopLevel("class")}
               = LinesOfKind("class")
        /\ {analysis.elements[p].line : p \in TopLevel("function")}
               = {i \in LinesOfKind("method") : ~Attached(i)}
        /\ \A i \in DOMAIN source.lines :
              IF i \in LinesOfKind("method") /\ Attached(i)
              THEN /\ Cardinality(ChildrenAt(i)) = 1
                   /\ \A pc2 \in ChildrenAt(i) :
                         analysis.elements[pc2[1]].line = OpenClass(i)
              ELSE ChildrenAt(i) = {}

\* a method attached to its class, a method at the indentation of the class
\* that closes the context, and an indented method after it at top level
C28_Witness ==
    /\ pc = "analyzed"
    /\ source.languageId = "typescript"
    /\ Len(source.lines) = 4
    /\ LinesOfKind("class") = {1}
    /\ LinesOfKind("method") = {2, 3, 4}
    /\ source.lines[4].indent > source.lines[1].indent
    /\ Len(analysis.elements) = 3
    /\ Len(analysis.elements[1].children) = 1
    /\ analysis.elements[3].line = 4

\* C29: handling a test message of the settings panel leaves the persisted
\* provider, apiKey, apiUrl and model as they were before the test.
TestKeepsSettings == TestHandled => settings' = settings

C29_TestIsTemporary == [][TestKeepsSettings]_vars

\* C30: cancellation is observed at the checkpoints of generateTour only:
\* the run becomes cancelled from a checkpoint and with cancellation
\* requested, never from inside generateTourInBatches; when it is cancelled
\* after the generation, the welcome request and every batch of every group
\* have been issued and have settled; cancellation requested after the last
\* checkpoint changes nothing: the tour is returned and the command goes on
\* to save it.
InGeneration == {"welcome", "welcomeWait", "issue", "await"}

ObservedAtCheckpointsOnly ==
    /\ pc # "cancelled" /\ pc' = "cancelled" =>
          pc \in AtCheckpoint /\ cancelRequested
    /\ pc \in InGeneration /\ pc' # pc =>
          pc' \in InGeneration \cup {"returned"}
    /\ pc = "returned" /\ pc' = "cancelled" =>
          /\ wreq # "inflight"
          /\ groupStart >= NB
          /\ \A b \in 1..NB : prom[b] \in Fulfilled
    /\ pc = "done" /\ pc' # pc => pc' \in {"askStart", "exit"}

LateCancellationIgnored ==
    cancelRequested /\ pc = "askStart" => tourSaved /\ tourInStore

C30_CancellationAtCheckpoints ==
    []LateCancellationIgnored /\ [][ObservedAtCheckpointsOnly]_vars

\* cancellation was requested after the last checkpoint and the tour of a
\* project with batches was saved
C30_Witness ==
    /\ pc = "askStart"
    /\ cancelRequested
    /\ tourSaved
    /\ NB > 0
    /\ validatedSteps # <<>>

====
